---- MODULE Spec2Model ----
(***************************************************************************)
(* Raster-to-overlay pipeline of the UHI-LST frontend:                     *)
(*   TiffLayer.tsx          single-band grey overlay  (processTiff)        *)
(*   CompositeTiffLayer.tsx three-band RGB composite  (processComposite)   *)
(* and the components around it:                                           *)
(*   HeatmapLayer.tsx       heat layer of temperature samples              *)
(*   analysisStore.ts       analysis result, projects, notifications       *)
(*   Analysis.tsx           handleRunAnalysis                              *)
(* Samples are IEEE floats (Float32Array): a sample is NaN, +Infinity,     *)
(* -Infinity or a finite number; finite numbers are integers here.         *)
(***************************************************************************)
EXTENDS Integers, Sequences, FiniteSets, TLC

VARIABLES
    rsInput,        \* resampler input  [mode, width, height] (image.getWidth/getHeight)
    rsOutput,       \* resampler output [targetWidth, targetHeight], None before it ran
    t_file,         \* TiffLayer prop `file`
    t_pc,           \* position of processTiff
    t_data,         \* rasters[0] of processTiff
    t_stats,        \* [min, max, validCount] of processTiff
    t_alpha,        \* alpha bytes of imageData.data in processTiff (pixels[i*4+3])
    t_imageUrl,     \* TiffLayer state imageUrl
    t_error,        \* TiffLayer state error
    t_loading,      \* TiffLayer state loading
    t_target,       \* [targetWidth, targetHeight] of processTiff
    t_bounds,       \* TiffLayer state bounds, also what map.fitBounds was given
    t_sourceProj,   \* sourceProj of processTiff as its EPSG code, 0 before it is set
    t_transformed,  \* processTiff called proj4 and it returned
    t_bufferRead,   \* processTiff called file.arrayBuffer()
    c_bands,        \* CompositeTiffLayer props [r, g, b] (redBand, greenBand, blueBand)
    c_pc,           \* position of processComposite
    c_target,       \* [targetWidth, targetHeight] of processComposite
    c_arrays,       \* [r, g, b] = rArray, gArray, bArray
    c_stats,        \* [r, g, b] = rStats, gStats, bStats
    c_pixels,       \* imageData.data as a sequence of [r, g, b, a]
    c_imageUrl,     \* CompositeTiffLayer state imageUrl
    c_error,        \* CompositeTiffLayer state error
    c_loading,      \* CompositeTiffLayer state loading
    c_bounds,       \* CompositeTiffLayer state bounds, also what map.fitBounds was given
    c_sourceProj,   \* sourceProj of processComposite as its EPSG code, 0 before it is set
    c_transformed,  \* processComposite called proj4 and it returned
    c_bufferRead,   \* the bands whose file.arrayBuffer() loadBand called
    c_loaded,       \* [r, g, b]: the loadBand promise is "pending", "ok" or "failed"
    c_prev,         \* earlier builds of this component: their arrays and pixels, oldest first
    t_builds,       \* calls of processTiff that have not returned: [file, pc, target, sourceProj]
    c_builds,       \* calls of processComposite that have not returned: [bands, pc, target]
    mapViewMode,    \* AnalysisPage state mapViewMode: "thermal" shows the TiffLayer, "truecolor" the composite
    h_props,        \* HeatmapLayer props [points, minTemp, maxTemp, radius, blur, maxZoom, opacity]
    h_phase,        \* HeatmapLayer is "new" (not mounted yet), "mounted" or "unmounted"
    h_layers,       \* the heat layers on the map, in the order of their addTo(map)
    h_cleanup,      \* the cleanup the last effect run returned: None, or the layer it removes
    h_view,         \* the bounds the map was last fitted to by HeatmapLayer, None before
    h_effect,       \* what the last effect run computed: None, or [actualMin, actualMax, tempRange]
    s_analysisResult, \* analysisStore analysisResult
    s_isLoading,    \* analysisStore isLoading
    s_error,        \* analysisStore error
    s_projects,     \* analysisStore projects, newest first
    s_notification, \* analysisStore notification
    s_timers,       \* pending setTimeout callbacks of showNotification: the time each is due
    s_now,          \* the time in seconds
    s_shownAt,      \* the time of the showNotification call that set the notification
    r_bandFiles,    \* AnalysisPage state bandFiles: the band names that have a file
    r_uploadProgress, \* AnalysisPage state uploadProgress
    r_runs          \* calls of handleRunAnalysis waiting for analyzeImagery

rsVars == <<rsInput, rsOutput>>
tVars == <<t_file, t_pc, t_data, t_stats, t_alpha, t_imageUrl, t_error, t_loading,
          t_target, t_bounds, t_sourceProj, t_transformed, t_bufferRead>>
cVars == <<c_bands, c_pc, c_target, c_arrays, c_stats, c_pixels, c_imageUrl, c_error,
          c_loading, c_prev, c_bounds, c_sourceProj, c_transformed, c_bufferRead,
          c_loaded>>
bVars == <<t_builds, c_builds, mapViewMode>>
\* the variables of the one build the TiffLayer runs for its first file
tBuildVars == <<t_pc, t_data, t_stats, t_alpha, t_target, t_sourceProj, t_transformed,
               t_bufferRead>>
\* the variables of the builds the CompositeTiffLayer runs one after the other
cBuildVars == <<c_pc, c_target, c_arrays, c_stats, c_pixels, c_prev, c_sourceProj,
               c_transformed, c_bufferRead, c_loaded>>
hVars == <<h_props, h_phase, h_layers, h_cleanup, h_view, h_effect>>
sVars == <<s_analysisResult, s_isLoading, s_error, s_projects, s_notification, s_timers,
          s_now, s_shownAt, r_bandFiles, r_uploadProgress, r_runs>>
\* the variables of the components that stand apart from a single overlay build
uiVars == <<bVars, hVars, sVars>>
vars == <<rsVars, tVars, cVars, uiVars>>

\* null of a string state (imageUrl, error)
Null == "null"
\* a nullable object is the empty sequence (null) or <<object>>
None == <<>>
Some(x) == <<x>>

-----------------------------------------------------------------------------
(* Bounds of the model *)

\* longest small raster (pixels) of a single-band file
MaxLen == 3
\* longest small raster (pixels) of a composite band
MaxLenC == 2
\* number of distinct finite valid sample levels (100, 150, 200, ...)
NumLevels == 3
\* side of the large square raster (BigSide * BigSide pixels, sampled with a stride)
BigSide == 100
\* number of times the composite's band props are changed after a build
MaxChanges == 1

-----------------------------------------------------------------------------
(* IEEE floats *)

NaN == [k |-> "nan", n |-> 0]
PosInf == [k |-> "inf", n |-> 1]
NegInf == [k |-> "inf", n |-> -1]
Num(x) == [k |-> "num", n |-> x]

isNaN(v) == v.k = "nan"
isFinite(v) == v.k = "num"

\* a < b of JavaScript: false when either side is NaN
Lt(a, b) ==
    /\ ~isNaN(a) /\ ~isNaN(b)
    /\ \/ a = NegInf /\ b # NegInf
       \/ b = PosInf /\ a # PosInf
       \/ isFinite(a) /\ isFinite(b) /\ a.n < b.n
Gt(a, b) == Lt(b, a)
\* a === b of JavaScript: NaN equals nothing
StrictEq(a, b) == ~isNaN(a) /\ ~isNaN(b) /\ a = b
Le(a, b) == Lt(a, b) \/ StrictEq(a, b)

\* a - b of JavaScript
Sub(a, b) ==
    IF isNaN(a) \/ isNaN(b) THEN NaN
    ELSE IF isFinite(a) /\ isFinite(b) THEN Num(a.n - b.n)
    ELSE IF isFinite(b) THEN a
    ELSE IF isFinite(a) THEN (IF b = PosInf THEN NegInf ELSE PosInf)
    ELSE IF a = b THEN NaN ELSE a

\* a / b of JavaScript for a, b results of Sub; a finite quotient is kept as
\* the exact fraction p/q with q > 0 (x - x is +0, so a zero divisor is +0)
Div(a, b) ==
    IF isNaN(a) \/ isNaN(b) THEN [k |-> "nan", p |-> 0, q |-> 1]
    ELSE IF ~isFinite(a) /\ ~isFinite(b) THEN [k |-> "nan", p |-> 0, q |-> 1]
    ELSE IF ~isFinite(a)
         THEN [k |-> "inf", p |-> (IF b.n < 0 THEN -a.n ELSE a.n), q |-> 1]
    ELSE IF ~isFinite(b) THEN [k |-> "rat", p |-> 0, q |-> 1]
    ELSE IF b.n = 0
         THEN (IF a.n = 0 THEN [k |-> "nan", p |-> 0, q |-> 1]
               ELSE [k |-> "inf", p |-> (IF a.n < 0 THEN -1 ELSE 1), q |-> 1])
    ELSE IF b.n < 0 THEN [k |-> "rat", p |-> -a.n, q |-> -b.n]
    ELSE [k |-> "rat", p |-> a.n, q |-> b.n]

-----------------------------------------------------------------------------
(* Resampler: the auto-downsample of processTiff and processComposite *)

Max2(a, b) == IF a > b THEN a ELSE b
Min2(a, b) == IF a < b THEN a ELSE b

\* const maxDim = 2048 (TiffLayer) / 1024 (CompositeTiffLayer)
MaxDimTiff == 2048
MaxDimComposite == 1024
maxDimOf(mode) == IF mode = "tiff" THEN MaxDimTiff ELSE MaxDimComposite

\* scale = Math.max(width / maxDim, height / maxDim), as the fraction num/maxDim.
\* maxDim is a power of two, so the double width / maxDim is exact.
ScaleNumMin(width, height) == Min2(width, height)
ScaleNum(width, height) == Max2(width, height)

\* Math.floor(x / scale) with scale = num/maxDim: the double quotient of x by
\* an exact scale cannot round up to the next integer for x below 2^31
FloorDivScale(x, num, maxDim) == (x * maxDim) \div num

\* targetWidth, targetHeight of the downsample block
TargetSize(width, height, maxDim) ==
    IF width > maxDim \/ height > maxDim
    THEN LET num == ScaleNum(width, height)
         IN [targetWidth |-> FloorDivScale(width, num, maxDim),
             targetHeight |-> FloorDivScale(height, num, maxDim)]
    ELSE [targetWidth |-> width, targetHeight |-> height]

\* raster dimensions tried by the resampler
DimSamples == {1, 2, 3, 1000, 1023, 1024, 1025, 2047, 2048, 2049, 3000, 4096, 5000}

InitResample ==
    /\ rsInput \in {Some(in) : in \in [mode : {"tiff", "composite"},
                                        width : DimSamples, height : DimSamples]}
    /\ rsOutput = None

Resample ==
    /\ rsOutput = None
    /\ rsInput # None
    /\ rsOutput' = Some(TargetSize(rsInput[1].width, rsInput[1].height,
                                   maxDimOf(rsInput[1].mode)))
    /\ UNCHANGED <<rsInput, tVars, cVars, uiVars>>

-----------------------------------------------------------------------------
(* Sample values and raster files of the model *)

\* the no-data sentinel the loops test for (=== -9999)
NoData == -9999

Level(k) == Num(100 + 50 * (k - 1))
Levels == {Level(k) : k \in 1..NumLevels}
Specials == {NaN, PosInf, NegInf, Num(NoData), Num(0)}
Samples == Specials \cup Levels

-----------------------------------------------------------------------------
(* StatisticsEngine *)

\* let min = Infinity; let max = -Infinity; let validCount = 0
EmptyStats == [min |-> PosInf, max |-> NegInf, validCount |-> 0]

\* TiffLayer: !isNaN(d) && isFinite(d) && d !== -9999 && d !== 0
TiffValid(d) ==
    ~isNaN(d) /\ isFinite(d) /\ ~StrictEq(d, Num(NoData)) /\ ~StrictEq(d, Num(0))

\* CompositeTiffLayer getStats: v !== -9999 && v !== 0 && !isNaN(v)
StatsValid(v) ==
    ~StrictEq(v, Num(NoData)) /\ ~StrictEq(v, Num(0)) /\ ~isNaN(v)

\* if (v < min) min = v; if (v > max) max = v; validCount++
UpdateSwapped(v, acc) ==
    [min |-> IF Gt(v, acc.min) THEN v ELSE acc.min,
     max |-> IF Lt(v, acc.max) THEN v ELSE acc.max,
     validCount |-> acc.validCount + 1]
Update(v, acc) ==
    [min |-> IF Lt(v, acc.min) THEN v ELSE acc.min,
     max |-> IF Gt(v, acc.max) THEN v ELSE acc.max,
     validCount |-> acc.validCount + 1]

\* processTiff "Calculate domain": for (let i = 0; i < data.length; i++),
\* here the iterations i = lo .. hi-1 taken in order from the accumulator acc
\* (the range is halved so that the evaluation depth stays logarithmic)
RECURSIVE TiffScan(_, _, _, _)
TiffScan(data, lo, hi, acc) ==
    IF hi <= lo THEN acc
    ELSE IF hi = lo + 1
         THEN (IF TiffValid(data[lo + 1]) THEN Update(data[lo + 1], acc) ELSE acc)
    ELSE LET mid == (lo + hi) \div 2
             left == TiffScan(data, lo, mid, acc)
         IN IF left = left THEN TiffScan(data, mid, hi, left) ELSE acc

TiffDomain(data) == TiffScan(data, 0, Len(data), EmptyStats)

\* validCount === 0 || min === Infinity || max === -Infinity
NoValidData(st) ==
    st.validCount = 0 \/ StrictEq(st.min, PosInf) \/ StrictEq(st.max, NegInf)

\* getStats inspects at most about this many samples
SampleBudget == 5000
\* const step = Math.max(1, Math.floor(data.length / 5000))
StepOf(len) == Max2(1, len \div SampleBudget)

\* getStats: for (let i = 0; i < data.length; i += step), here the
\* iterations k = lo .. hi-1 (i = k * step) taken in order from acc
RECURSIVE StatsScan(_, _, _, _, _)
StatsScan(data, step, lo, hi, acc) ==
    IF hi <= lo THEN acc
    ELSE IF hi = lo + 1
         THEN (IF StatsValid(data[lo * step + 1])
               THEN Update(data[lo * step + 1], acc) ELSE acc)
    ELSE LET mid == (lo + hi) \div 2
             left == StatsScan(data, step, lo, mid, acc)
         IN IF left = left THEN StatsScan(data, step, mid, hi, left) ELSE acc

getStats(data) ==
    LET step == StepOf(Len(data))
        st == StatsScan(data, step, 0, (Len(data) + step - 1) \div step, EmptyStats)
    IN [min |-> st.min, max |-> st.max]

-----------------------------------------------------------------------------
(* ValueStretcher *)

\* Math.max(0, norm): NaN stays NaN
MaxZero(norm) ==
    IF norm.k = "nan" THEN norm
    ELSE IF norm.p < 0 THEN [k |-> "rat", p |-> 0, q |-> 1]
    ELSE norm

\* Math.min(255, Math.pow(x, 0.8) * 255) for x = MaxZero(norm), kept as the
\* fraction x in [0, 1] whose value is 255 * x^0.8; NaN stays NaN
MinPow(x) ==
    IF x.k = "nan" THEN x
    ELSE IF x.k = "inf" \/ x.p >= x.q THEN [k |-> "rat", p |-> 1, q |-> 1]
    ELSE x

\* const stretch = (val, min, max) => { const norm = (val - min) / (max - min);
\*   return Math.min(255, Math.pow(Math.max(0, norm), 0.8) * 255); }
stretchInverted(val, min, max) == MinPow(MaxZero(Div(Sub(max, val), Sub(max, min))))
stretch(val, min, max) == MinPow(MaxZero(Div(Sub(val, min), Sub(max, min))))

\* Math.pow(p/q, 0.8) * 255 rounded to the nearest integer, for the fractions
\* strictly between 0 and 1 with a denominator up to 6 (double arithmetic;
\* none of them is a tie)
PowTable ==
    { [p |-> 1, q |-> 2, byte |-> 146],
      [p |-> 1, q |-> 3, byte |-> 106], [p |-> 2, q |-> 3, byte |-> 184],
      [p |-> 1, q |-> 4, byte |-> 84],  [p |-> 3, q |-> 4, byte |-> 203],
      [p |-> 1, q |-> 5, byte |-> 70],  [p |-> 2, q |-> 5, byte |-> 123],
      [p |-> 3, q |-> 5, byte |-> 169], [p |-> 4, q |-> 5, byte |-> 213],
      [p |-> 1, q |-> 6, byte |-> 61],  [p |-> 5, q |-> 6, byte |-> 220] }

\* pixels[idx] = x: the Uint8ClampedArray store of a stretch result
\* (NaN is stored as 0, anything else is rounded to the nearest byte)
ToUint8Clamped(x) ==
    IF x.k = "nan" THEN 0
    ELSE IF x.p = 0 THEN 0
    ELSE IF x.p = x.q THEN 255
    ELSE (CHOOSE e \in PowTable : e.p * x.q = e.q * x.p).byte

-----------------------------------------------------------------------------
(* AlphaMasker and CompositeBuilder *)

\* plotty's fragment shader with clampLow = clampHigh = false: a value
\* outside the domain is drawn transparent, any other value takes an opaque
\* colour of the 'greys' scale
PlottyAlpha(d, st) == IF Lt(d, st.min) \/ Gt(d, st.max) THEN 0 ELSE 255

\* data[i] === -9999 || data[i] === 0 || !isFinite(data[i])
TiffNoData(d) == StrictEq(d, Num(NoData)) \/ StrictEq(d, Num(0)) \/ ~isFinite(d)

\* processTiff "Apply transparency to NoData pixels": pixels[i * 4 + 3]
TiffAlpha(data, st) ==
    [i \in 1..Len(data) |-> IF TiffNoData(data[i]) THEN 0 ELSE PlottyAlpha(data[i], st)]

\* r === -9999 || r === 0 || isNaN(r)
CompositeNoData(r) == StrictEq(r, Num(NoData)) \/ StrictEq(r, Num(0)) \/ isNaN(r)

\* one iteration of the "Combine bands" loop; createImageData starts from
\* transparent black
CombinePixelCross(r, g, b, st) ==
    IF CompositeNoData(r) THEN [r |-> 0, g |-> 0, b |-> 0, a |-> 0]
    ELSE [r |-> ToUint8Clamped(stretch(r, st.r.min, st.r.max)),
          g |-> ToUint8Clamped(stretch(g, st.r.min, st.r.max)),
          b |-> ToUint8Clamped(stretch(b, st.r.min, st.r.max)),
          a |-> 255]
CombinePixel(r, g, b, st) ==
    IF CompositeNoData(r) THEN [r |-> 0, g |-> 0, b |-> 0, a |-> 0]
    ELSE [r |-> ToUint8Clamped(stretch(r, st.r.min, st.r.max)),
          g |-> ToUint8Clamped(stretch(g, st.g.min, st.g.max)),
          b |-> ToUint8Clamped(stretch(b, st.b.min, st.b.max)),
          a |-> 255]

\* for (let i = 0; i < rArray.length; i++) { ... }
CombineGreenReversed(arr, st) ==
    [i \in 1..Len(arr.r) |->
        CombinePixel(arr.r[i], arr.g[Len(arr.r) + 1 - i], arr.b[i], st)]
Combine(arr, st) ==
    [i \in 1..Len(arr.r) |-> CombinePixel(arr.r[i], arr.g[i], arr.b[i], st)]

-----------------------------------------------------------------------------
(* RasterDecoder metadata and Reprojector *)

Abs(x) == IF x < 0 THEN -x ELSE x

\* 'EPSG:4326'; a sourceProj `EPSG:${code}` is kept as its code
WGS84 == 4326

\* image.getGeoKeys(): the two keys the code reads, 0 for a key that is absent
GeoKeys(projected, geographic) ==
    Some([ProjectedCSTypeGeoKey |-> projected, GeographicTypeGeoKey |-> geographic])

\* processTiff: let sourceProj = 'EPSG:4326'; if (geoKeys) { if (Projected) ...
\* else if (Geographic) ... }
TiffSourceProj(geoKeys) ==
    IF geoKeys = None THEN WGS84
    ELSE IF geoKeys[1].ProjectedCSTypeGeoKey # 0 THEN geoKeys[1].ProjectedCSTypeGeoKey
    ELSE IF geoKeys[1].GeographicTypeGeoKey # 0 THEN geoKeys[1].GeographicTypeGeoKey
    ELSE WGS84

\* processComposite: let sourceProj = 'EPSG:4326';
\* if (geoKeys?.ProjectedCSTypeGeoKey) sourceProj = `EPSG:${...}`
CompositeSourceProj(geoKeys) ==
    IF geoKeys # None /\ geoKeys[1].ProjectedCSTypeGeoKey # 0
    THEN geoKeys[1].ProjectedCSTypeGeoKey
    ELSE WGS84

\* sourceProj !== 'EPSG:4326' && Math.abs(bbox[0]) > 180
NeedsTransform(sourceProj, bbox) == sourceProj # WGS84 /\ Abs(bbox[1]) > 180

\* the codes proj4 has a definition for without a proj4.defs call (the code
\* makes none): WGS84, NAD83, web mercator and its aliases
Proj4LongLat == {4326, 4269}
Proj4Mercator == {3857, 3785, 900913, 102113}
Proj4Defs == Proj4LongLat \cup Proj4Mercator

\* web mercator metres to degrees, rounded to the nearest degree:
\* lon = x * 180 / 20037508.34
MercLon(x) ==
    IF x < 0 THEN -((-x * 180 + 10018754) \div 20037508)
    ELSE (x * 180 + 10018754) \div 20037508
\* lat = atan(sinh(y / 6378137)) for the northings of the model
MercLatTable == { <<1118890, 10>>, <<2273031, 20>>, <<3503550, 30>>, <<4865942, 40>> }
MercLat(y) ==
    IF Abs(y) < 55000 THEN 0
    ELSE LET e == CHOOSE t \in MercLatTable : t[1] = Abs(y)
         IN IF y < 0 THEN -e[2] ELSE e[2]

\* proj4(sourceProj, 'EPSG:4326', [x, y]) for a sourceProj in Proj4Defs; any
\* other sourceProj makes proj4 throw
proj4(sourceProj, pt) ==
    IF sourceProj \in Proj4Mercator THEN <<MercLon(pt[1]), MercLat(pt[2])>> ELSE pt

\* southWest = [swTransformed[1], swTransformed[0]]; northEast likewise
Transformed(sourceProj, bbox) ==
    LET swT == proj4(sourceProj, <<bbox[1], bbox[2]>>)
        neT == proj4(sourceProj, <<bbox[3], bbox[4]>>)
    IN [sw |-> <<swT[2], swT[1]>>, ne |-> <<neT[2], neT[1]>>]

\* southWest = [bbox[1], bbox[0]]; northEast = [bbox[3], bbox[2]]
DirectUnswapped(bbox) == [sw |-> <<bbox[1], bbox[2]>>, ne |-> <<bbox[3], bbox[4]>>]
Direct(bbox) == [sw |-> <<bbox[2], bbox[1]>>, ne |-> <<bbox[4], bbox[3]>>]

\* Math.abs(southWest[0]) > 90 || Math.abs(southWest[1]) > 180
InvalidCoordinates(b) == Abs(b.sw[1]) > 90 \/ Abs(b.sw[2]) > 180

-----------------------------------------------------------------------------
(* Inputs *)

SmallArrays(maxLen) == UNION {[1..n -> Samples] : n \in 1..maxLen}

\* a raster of BigSide * BigSide samples: the head h, then f everywhere
BigArray(f, h) == [i \in 1..(BigSide * BigSide) |-> IF i <= Len(h) THEN h[i] ELSE f]
\* <<fill, head>> of the large rasters: a lone usable sample at an index the
\* stride skips; a sample above the sampled maximum; a sample inside the
\* sampled range; a sample below the sampled minimum
BigShapes == { <<Num(0), <<Num(0), Level(NumLevels), Num(0)>> >>,
               <<Level(1), <<Level(2), Level(NumLevels), Level(1)>> >>,
               <<Level(1), <<Level(NumLevels), Level(1), Level(2)>> >>,
               <<Level(2), <<Level(NumLevels), Level(1), Level(2)>> >> }
BigArrays == {BigArray(fh[1], fh[2]) : fh \in BigShapes}

\* if (fileSizeMB > 500): the largest accepted file.size in bytes
MaxFileBytes == 500 * 1024 * 1024

\* the bounding box <<min_x, min_y, max_x, max_y>> and the keys of a file
\* whose metadata the model does not vary
PlainBox == <<10, 20, 30, 40>>
PlainKeys == GeoKeys(0, WGS84)

\* a File and what geotiff finds in it: decodable is whether
\* GeoTIFF.fromArrayBuffer and getImage succeed, bbox is None when
\* getBoundingBox has nothing to return
File(size, width, height, samples) ==
    [size |-> size, width |-> width, height |-> height, samples |-> samples,
     decodable |-> TRUE, bbox |-> Some(PlainBox), geoKeys |-> PlainKeys]
RowFile(a) == File(1024 + 4 * Len(a), Len(a), 1, a)
BigFile(a) == File(1024 + 4 * Len(a), BigSide, BigSide, a)

\* bounding boxes: degrees inside the valid range; a north-east corner out
\* of range; a south-west latitude out of range; a min_x beyond 180, east and
\* west; web mercator metres
BoxSamples ==
    { PlainBox, <<10, 20, 200, 95>>, <<10, 95, 30, 99>>, <<200, 20, 210, 40>>,
      <<-200, 20, -190, 40>>, <<1113195, 2273031, 2226390, 3503550>> }
BoxOptions == {None} \cup {Some(b) : b \in BoxSamples}
\* geo keys: none at all, neither key, WGS84, NAD83, web mercator with and
\* without a geographic key, and codes proj4 has no definition for (27700
\* British National Grid, 4277 OSGB36)
KeyOptions ==
    { None, GeoKeys(0, 0), PlainKeys, GeoKeys(0, 4269), GeoKeys(3857, WGS84),
      GeoKeys(3857, 0), GeoKeys(27700, WGS84), GeoKeys(27700, 0), GeoKeys(0, 4277) }

GeoVariants(file) ==
    {[file EXCEPT !.bbox = b, !.geoKeys = k] : b \in BoxOptions, k \in KeyOptions}
\* a file geotiff cannot parse
Undecodable(file) == [file EXCEPT !.decodable = FALSE]
\* a file above the size limit
Oversize(file) == [file EXCEPT !.size = MaxFileBytes + 1]

TiffFiles ==
    {RowFile(a) : a \in SmallArrays(MaxLen)}
    \cup {BigFile(a) : a \in BigArrays}
    \cup {File(MaxFileBytes + 1, 1, 1, <<Level(1)>>)}
    \cup GeoVariants(RowFile(<<Level(1), Level(2)>>))
    \cup {Undecodable(RowFile(<<Level(1), Level(2)>>))}

\* the (green, blue) samples that go with a red sample of a small composite
GBPairs == { <<Level(1), Level(NumLevels)>>, <<Level(2), Num(0)>> }
Triples == {<<r, gb[1], gb[2]>> : r \in Samples, gb \in GBPairs}
\* rows of up to MaxLenC pixels; from the third pixel on the green and blue
\* samples are those of the first pair
TripleRows ==
    UNION {{row \in [1..n -> Triples] :
               \A i \in 3..n : row[i][2] = Level(1) /\ row[i][3] = Level(NumLevels)} :
           n \in 1..MaxLenC}
BandOf(row, c) == RowFile([i \in 1..Len(row) |-> row[i][c]])

BandSet(r, g, b) == [r |-> Some(r), g |-> Some(g), b |-> Some(b)]

\* three bands of one size whose metadata and decoding the inputs below vary
PlainRed == RowFile(<<Level(1), Level(2)>>)
PlainGreen == RowFile(<<Level(2), Level(1)>>)
PlainBlue == RowFile(<<Level(1), Level(NumLevels)>>)
PlainBands == BandSet(PlainRed, PlainGreen, PlainBlue)

\* the same file given as red, green and blue band
IdenticalArrays == UNION {[1..n -> Levels \cup {Num(0), NaN}] : n \in 1..MaxLenC}
IdenticalInputs ==
    {BandSet(RowFile(a), RowFile(a), RowFile(a)) : a \in IdenticalArrays}
    \cup {BandSet(BigFile(a), BigFile(a), BigFile(a)) :
             a \in BigArrays \cup {BigArray(Level(1), <<Level(NumLevels), Num(0), Level(2)>>)}}

\* a green or blue band wider, narrower or of another shape than the red one
MismatchedInputs ==
    { [PlainBands EXCEPT !.g = Some(RowFile(<<Level(2), Level(1), Level(NumLevels)>>))],
      [PlainBands EXCEPT !.b = Some(RowFile(<<Level(NumLevels)>>))],
      [PlainBands EXCEPT !.g = Some(File(1032, 1, 2, <<Level(2), Level(1)>>))] }

\* one or two bands that cannot be parsed, or one band above the size limit
BrokenInputs ==
    {[PlainBands EXCEPT ![X] = Some(Undecodable(PlainBands[X][1]))] : X \in {"r", "g", "b"}}
    \cup {[PlainBands EXCEPT !.r = Some(Undecodable(PlainRed)),
                              !.b = Some(Undecodable(PlainBlue))]}
    \cup {[PlainBands EXCEPT ![X] = Some(Oversize(PlainBands[X][1]))] : X \in {"r", "g", "b"}}

CompositeInputs ==
    {[r |-> Some(BandOf(row, 1)), g |-> Some(BandOf(row, 2)), b |-> Some(BandOf(row, 3))] :
        row \in TripleRows}
    \cup {[r |-> Some(BigFile(a)),
           g |-> Some(BigFile(BigArray(Level(1), <<Level(NumLevels), Num(0), Level(2)>>))),
           b |-> Some(BigFile(BigArray(Level(2), <<Num(0), Level(NumLevels), Num(0)>>)))] :
        a \in BigArrays}
    \cup {[PlainBands EXCEPT !.r = Some(f)] : f \in GeoVariants(PlainRed)}
    \cup IdenticalInputs
    \cup MismatchedInputs
    \cup BrokenInputs

\* the files a band prop of a small composite is replaced by: same
\* dimensions, other samples; for the plain bands also a file that cannot be
\* parsed
AltFiles(file) ==
    IF file.height = 1
    THEN LET alt == RowFile([i \in 1..file.width |->
                                IF i = 1 THEN Level(1) ELSE Level(NumLevels)])
         IN IF file \in {PlainRed, PlainGreen, PlainBlue}
            THEN {alt, Undecodable(alt)}
            ELSE {alt}
    ELSE {}

-----------------------------------------------------------------------------
(* HeatmapLayer: temperature normalisation *)

\* most points of a heatmap
MaxPoints == 3
\* number of distinct temperatures
NumTemps == 3

RECURSIVE Gcd(_, _)
Gcd(a, b) == IF b = 0 THEN a ELSE Gcd(b, a % b)

\* the quotient n / d of two integers, d > 0, in lowest terms; the double the
\* code computes is this number rounded, so equal quotients are equal doubles
\* and the order against 0 and 1 is the order of the doubles
Frac(n, d) == LET g == Gcd(Abs(n), d) IN [num |-> n \div g, den |-> d \div g]
Half == Frac(1, 2)

\* a ?? b
Nullish(a, b) == IF a = None THEN b ELSE a[1]

\* Math.min(...temps) and Math.max(...temps) of a non-empty array
MathMin(temps) ==
    CHOOSE m \in {temps[i] : i \in DOMAIN temps} : \A i \in DOMAIN temps : m <= temps[i]
MathMax(temps) ==
    CHOOSE m \in {temps[i] : i \in DOMAIN temps} : \A i \in DOMAIN temps : m >= temps[i]

\* tempRange > 0 ? (point.temp - actualMin) / tempRange : 0.5
IntensityFlatZero(temp, actualMin, tempRange) ==
    IF tempRange > 0 THEN Frac(temp - actualMin, tempRange) ELSE Frac(0, 1)
Intensity(temp, actualMin, tempRange) ==
    IF tempRange > 0 THEN Frac(temp - actualMin, tempRange) ELSE Half

\* "Normalize temperatures to 0-1 range": temps, actualMin, actualMax, tempRange
Normalization(points, minTemp, maxTemp) ==
    LET temps == [i \in 1..Len(points) |-> points[i].temp]
        actualMin == Nullish(minTemp, MathMin(temps))
        actualMax == Nullish(maxTemp, MathMax(temps))
    IN [actualMin |-> actualMin, actualMax |-> actualMax,
        tempRange |-> actualMax - actualMin]

\* heatData: [lat, lon, intensity] of every point, in the order of the points
heatData(points, minTemp, maxTemp) ==
    LET n == Normalization(points, minTemp, maxTemp)
    IN [i \in 1..Len(points) |->
           <<points[i].lat, points[i].lon,
             Intensity(points[i].temp, n.actualMin, n.tempRange)>>]

\* the defaults of the props radius, blur, maxZoom and opacity (in tenths)
DefaultRadius == 25
DefaultBlur == 15
DefaultMaxZoom == 18
DefaultOpacity == 6

\* L.heatLayer(heatData, {radius, blur, maxZoom, minOpacity: opacity, max: 1.0,
\* gradient: TEMP_GRADIENT})
heatLayer(props) ==
    [latlngs |-> heatData(props.points, props.minTemp, props.maxTemp),
     radius |-> props.radius, blur |-> props.blur, maxZoom |-> props.maxZoom,
     minOpacity |-> props.opacity, max |-> 1, gradient |-> "TEMP_GRADIENT"]

\* L.latLngBounds([min lat, min lon], [max lat, max lon]) of heatData
latLngBounds(data) ==
    LET lats == [i \in 1..Len(data) |-> data[i][1]]
        lons == [i \in 1..Len(data) |-> data[i][2]]
    IN <<<<MathMin(lats), MathMin(lons)>>, <<MathMax(lats), MathMax(lons)>>>>

\* map.removeLayer(layer): the map without that layer
RECURSIVE removeLayer(_, _)
removeLayer(layers, layer) ==
    IF layers = <<>> THEN <<>>
    ELSE IF Head(layers) = layer THEN Tail(layers)
    ELSE <<Head(layers)>> \o removeLayer(Tail(layers), layer)

\* temperatures in degrees, and the i-th sample of a heatmap: the samples lie
\* on a diagonal
HeatTemp(i) == 10 * i
HeatTemps == {HeatTemp(i) : i \in 1..NumTemps}
HeatPoints(temps) ==
    [i \in 1..Len(temps) |-> [lat |-> i - 1, lon |-> 1 - i, temp |-> temps[i]]]
PointSets == {HeatPoints(temps) : temps \in UNION {[1..n -> HeatTemps] : n \in 0..MaxPoints}}
\* minTemp and maxTemp are absent or one of the two lowest temperatures
Overrides == {None, Some(HeatTemp(1)), Some(HeatTemp(2))}
RadiusOptions == {DefaultRadius, 10}
HeatProps ==
    [points : PointSets, minTemp : Overrides, maxTemp : Overrides,
     radius : RadiusOptions, blur : {DefaultBlur}, maxZoom : {DefaultMaxZoom},
     opacity : {DefaultOpacity}]
NoPoints ==
    [points |-> <<>>, minTemp |-> None, maxTemp |-> None, radius |-> DefaultRadius,
     blur |-> DefaultBlur, maxZoom |-> DefaultMaxZoom, opacity |-> DefaultOpacity]

-----------------------------------------------------------------------------
(* analysisStore and AnalysisPage: inputs *)

\* most saved projects
MaxProjects == 2
\* most pending timers of showNotification
MaxTimers == 2
\* last second of the clock
MaxTime == 4
\* most calls of handleRunAnalysis that wait for the backend at once
MaxRuns == 2

\* setTimeout(..., 3000), in seconds
HideDelay == 3

\* result documents of the analysis service, names of projects, messages of
\* a failed analysis
Results == {"job-1", "job-2"}
Names == {"first", "second"}
Failures == {"Analysis failed", "Network error occurred"}
\* the keys of bandFiles, and the steps of the upload the progress callback reports
RequiredBands == {"B10", "B7", "B6", "B5", "B4", "B3", "B2"}
ProgressSteps == {25, 50}

\* projects.find(p => p.id === id), for an id the list holds
find(projects, id) == projects[CHOOSE i \in 1..Len(projects) : projects[i].id = id]
\* projects.filter(p => p.id !== id)
RECURSIVE filter(_, _)
filter(projects, id) ==
    IF projects = <<>> THEN <<>>
    ELSE IF Head(projects).id = id THEN filter(Tail(projects), id)
    ELSE <<Head(projects)>> \o filter(Tail(projects), id)
ProjectIds(projects) == {projects[i].id : i \in 1..Len(projects)}

-----------------------------------------------------------------------------
(* Overlay builds that overlap: inputs *)

\* most builds of a layer that wait at once
MaxBuilds == 2

\* web mercator metres of a box in the valid range
MercatorBox == <<1113195, 2273031, 2226390, 3503550>>

\* the files a layer is given one after the other: a plain file, a file
\* with other samples in web mercator, a file in a projection proj4 has no
\* definition of, a file geotiff cannot parse and a file above the size limit
FileA == RowFile(<<Level(1), Level(2)>>)
FileB ==
    [RowFile(<<Level(2), Level(1)>>) EXCEPT !.bbox = Some(MercatorBox),
                                            !.geoKeys = GeoKeys(3857, 0)]
FileUnknownCrs ==
    [RowFile(<<Level(2), Level(2)>>) EXCEPT !.bbox = Some(MercatorBox),
                                            !.geoKeys = GeoKeys(27700, 0)]
LayerFiles == {FileA, FileB, FileUnknownCrs, Undecodable(FileA), Oversize(FileA)}
FileInputs == {None} \cup {Some(f) : f \in LayerFiles}

\* the band sets a composite layer is given one after the other: the plain
\* bands, another red band, a red band in an unknown projection, a red band
\* that cannot be parsed, and sets with the green band or all bands missing
BandInputs ==
    { PlainBands,
      [PlainBands EXCEPT !.r = Some(FileB)],
      [PlainBands EXCEPT !.r = Some(FileUnknownCrs)],
      [PlainBands EXCEPT !.r = Some(Undecodable(FileA))],
      [PlainBands EXCEPT !.g = None],
      [r |-> None, g |-> None, b |-> None] }

\* !redBand || !greenBand || !blueBand
BandMissing(bands) == bands.r = None \/ bands.g = None \/ bands.b = None

\* canvas.toDataURL(): a string that encodes the content of the canvas
toDataURL(canvas) == ToString(canvas)

\* finalCanvas of processTiff: plotty's rendering of data over the domain,
\* with the alpha mask
TiffCanvas(data, st) ==
    [data |-> data, domain |-> <<st.min, st.max>>, alpha |-> TiffAlpha(data, st)]

\* builds without the i-th
Without(builds, i) == SubSeq(builds, 1, i - 1) \o SubSeq(builds, i + 1, Len(builds))

-----------------------------------------------------------------------------
(* Initial states *)

ZeroSize == [targetWidth |-> 0, targetHeight |-> 0]
EmptyRange == [min |-> PosInf, max |-> NegInf]

ResampleIdle == rsInput = None /\ rsOutput = None

\* no build of an overlay is waiting
NoBuilds == t_builds = <<>> /\ c_builds = <<>> /\ mapViewMode = "thermal"

\* a HeatmapLayer that is not mounted yet
HeatNew ==
    /\ h_phase = "new"
    /\ h_layers = <<>>
    /\ h_cleanup = None
    /\ h_view = None
    /\ h_effect = None

\* the store as it is created, at time 0 with no timer pending
StoreNew ==
    /\ s_analysisResult = None
    /\ s_isLoading = FALSE
    /\ s_error = Null
    /\ s_projects = <<>>
    /\ s_notification = None
    /\ s_timers = <<>>
    /\ s_now = 0
    /\ s_shownAt = None

\* an AnalysisPage with no band selected and no analysis started
PageNew ==
    /\ r_bandFiles = {}
    /\ r_uploadProgress = 0
    /\ r_runs = 0

\* the components that stand apart from a single overlay build, idle
UiNew == NoBuilds /\ HeatNew /\ h_props = NoPoints /\ StoreNew /\ PageNew

TiffFresh ==
    /\ t_pc = "idle"
    /\ t_target = ZeroSize
    /\ t_data = <<>>
    /\ t_stats = EmptyStats
    /\ t_alpha = <<>>
    /\ t_imageUrl = Null
    /\ t_error = Null
    /\ t_loading = FALSE
    /\ t_bounds = None
    /\ t_sourceProj = 0
    /\ t_transformed = FALSE
    /\ t_bufferRead = FALSE

\* no loadBand promise exists
NotLoading == [r |-> "none", g |-> "none", b |-> "none"]

CompositeFresh ==
    /\ c_pc = "idle"
    /\ c_target = ZeroSize
    /\ c_arrays = [r |-> <<>>, g |-> <<>>, b |-> <<>>]
    /\ c_stats = [r |-> EmptyRange, g |-> EmptyRange, b |-> EmptyRange]
    /\ c_pixels = <<>>
    /\ c_imageUrl = Null
    /\ c_error = Null
    /\ c_loading = FALSE
    /\ c_prev = <<>>
    /\ c_bounds = None
    /\ c_sourceProj = 0
    /\ c_transformed = FALSE
    /\ c_bufferRead = {}
    /\ c_loaded = NotLoading

NoBands == [r |-> None, g |-> None, b |-> None]

\* a TiffLayer mounted with a file
InitTiff ==
    /\ t_file \in {Some(f) : f \in TiffFiles}
    /\ TiffFresh
    /\ c_bands = NoBands /\ CompositeFresh
    /\ ResampleIdle
    /\ UiNew

\* a CompositeTiffLayer mounted with three bands
InitComposite ==
    /\ c_bands \in CompositeInputs
    /\ CompositeFresh
    /\ t_file = None /\ TiffFresh
    /\ ResampleIdle
    /\ UiNew

Init == InitTiff \/ InitComposite

InitResampler ==
    /\ InitResample
    /\ t_file = None /\ TiffFresh
    /\ c_bands = NoBands /\ CompositeFresh
    /\ UiNew

-----------------------------------------------------------------------------
(* RasterDecoder boundary (geotiff) *)

\* image.readRasters: the first sample band at the requested size; a request
\* for the image's own size returns its samples as they are, a smaller
\* request takes the nearest sample of each target pixel
readRasters(file, target) ==
    IF target.targetWidth = file.width /\ target.targetHeight = file.height
    THEN file.samples
    ELSE [i \in 1..(target.targetWidth * target.targetHeight) |->
            LET x == (i - 1) % target.targetWidth
                y == (i - 1) \div target.targetWidth
                cx == Min2(file.width - 1, (2 * x * file.width + target.targetWidth)
                                            \div (2 * target.targetWidth))
                cy == Min2(file.height - 1, (2 * y * file.height + target.targetHeight)
                                             \div (2 * target.targetHeight))
            IN file.samples[cy * file.width + cx + 1]]

\* the sample of the window at column cx, row cy: the image's sample where
\* the image has one, the 0 the result array starts with elsewhere
WindowSample(file, cx, cy) ==
    IF cx < file.width /\ cy < file.height
    THEN file.samples[cy * file.width + cx + 1]
    ELSE Num(0)

\* readRaster of processComposite: image.readRasters({window: [0, 0, width,
\* height], width: targetWidth, height: targetHeight, samples: [0]}) with the
\* width and height of the red band: the image's samples as they are when
\* window and target are the image's own size, else the nearest sample of
\* each target pixel
readRaster(file, width, height, target) ==
    IF /\ file.width = width /\ file.height = height
       /\ target.targetWidth = width /\ target.targetHeight = height
    THEN file.samples
    ELSE [i \in 1..(target.targetWidth * target.targetHeight) |->
            LET x == (i - 1) % target.targetWidth
                y == (i - 1) \div target.targetWidth
                cx == Min2(width - 1, (2 * x * width + target.targetWidth)
                                       \div (2 * target.targetWidth))
                cy == Min2(height - 1, (2 * y * height + target.targetHeight)
                                        \div (2 * target.targetHeight))
            IN WindowSample(file, cx, cy)]

\* what readRasters does with the window of the red band on the three images:
\* it reads when the window lies inside each image; when it reaches beyond
\* one, geotiff either throws or leaves the samples outside at 0, depending
\* on its version
WindowOutcomes(bands, width, height) ==
    IF \E X \in {"r", "g", "b"} : bands[X][1].width < width \/ bands[X][1].height < height
    THEN {"throws", "fills"}
    ELSE {"reads"}

-----------------------------------------------------------------------------
(* TiffLayer: processTiff *)

\* catch (err): setError(message); setImageUrl(null); setBounds(null); setLoading(false)
TiffCatch(message) ==
    /\ t_error' = message
    /\ t_imageUrl' = Null
    /\ t_bounds' = None
    /\ t_loading' = FALSE
    /\ t_pc' = "failed"

\* "Validate coordinates", then setBounds, map.fitBounds and setLoading(false);
\* setImageUrl(finalCanvas.toDataURL()) came before
TiffPublish(b) ==
    IF InvalidCoordinates(b)
    THEN TiffCatch("Invalid coordinates after transformation")
    ELSE /\ t_imageUrl' = "dataURL"
         /\ t_bounds' = Some(b)
         /\ t_loading' = FALSE
         /\ t_pc' = "rendered"
         /\ UNCHANGED t_error

\* useEffect with a file: setLoading(true); setError(null); the size check;
\* then the build waits for file.arrayBuffer()
T_Start ==
    /\ t_pc = "idle"
    /\ t_file # None
    /\ IF t_file[1].size > MaxFileBytes
       THEN /\ TiffCatch("File too large")
            /\ UNCHANGED t_bufferRead
       ELSE /\ t_loading' = TRUE
            /\ t_error' = Null
            /\ t_pc' = "decoding"
            /\ t_bufferRead' = TRUE
            /\ UNCHANGED <<t_imageUrl, t_bounds>>
    /\ UNCHANGED <<t_file, t_target, t_data, t_stats, t_alpha, t_sourceProj,
                   t_transformed, rsVars, uiVars, cVars>>

\* the buffer arrived: GeoTIFF.fromArrayBuffer and getImage, which throw on a
\* file they cannot parse; width, height, the auto-downsample, then the build
\* waits for image.readRasters
T_Decode ==
    /\ t_pc = "decoding"
    /\ IF t_file[1].decodable
       THEN /\ t_target' = TargetSize(t_file[1].width, t_file[1].height, MaxDimTiff)
            /\ t_pc' = "reading"
            /\ UNCHANGED <<t_imageUrl, t_error, t_loading, t_bounds>>
       ELSE /\ TiffCatch("Failed to process TIFF")
            /\ UNCHANGED t_target
    /\ UNCHANGED <<t_file, t_data, t_stats, t_alpha, t_sourceProj, t_transformed,
                   t_bufferRead, rsVars, uiVars, cVars>>

\* the part of processTiff from setImageUrl on: the bounding box, the source
\* projection, then either the wait for import('proj4') or the bounds as
\* they are
TiffBounds ==
    IF t_file[1].bbox = None
    THEN /\ TiffCatch("TIFF has no geographic bounds")
         /\ UNCHANGED t_sourceProj
    ELSE LET bbox == t_file[1].bbox[1]
             sourceProj == TiffSourceProj(t_file[1].geoKeys)
         IN /\ t_sourceProj' = sourceProj
            /\ IF NeedsTransform(sourceProj, bbox)
               THEN /\ t_imageUrl' = "dataURL"
                    /\ t_pc' = "importing"
                    /\ UNCHANGED <<t_error, t_loading, t_bounds>>
               ELSE TiffPublish(Direct(bbox))

\* the raster is read: the empty-data check, the domain, plotty's render, the
\* alpha mask, setImageUrl and the bounds up to the next wait
T_Render ==
    /\ t_pc = "reading"
    /\ LET data == readRasters(t_file[1], t_target)
           st == TiffDomain(data)
       IN /\ t_data' = data
          /\ IF Len(data) = 0
             THEN /\ TiffCatch("Failed to read TIFF data")
                  /\ UNCHANGED <<t_stats, t_alpha, t_sourceProj>>
             ELSE /\ t_stats' = st
                  /\ IF NoValidData(st)
                     THEN /\ TiffCatch("No valid data values found")
                          /\ UNCHANGED <<t_alpha, t_sourceProj>>
                     ELSE /\ t_alpha' = TiffAlpha(data, st)
                          /\ TiffBounds
    /\ UNCHANGED <<t_file, t_target, t_transformed, t_bufferRead, rsVars, uiVars, cVars>>

\* proj4 is imported: the two corners are transformed (proj4 throws for a
\* projection it has no definition of), validated and published
T_Transform ==
    /\ t_pc = "importing"
    /\ IF t_sourceProj \in Proj4Defs
       THEN /\ t_transformed' = TRUE
            /\ TiffPublish(Transformed(t_sourceProj, t_file[1].bbox[1]))
       ELSE /\ TiffCatch("Cannot transform to WGS84")
            /\ UNCHANGED t_transformed
    /\ UNCHANGED <<t_file, t_target, t_data, t_stats, t_alpha, t_sourceProj,
                   t_bufferRead, rsVars, uiVars, cVars>>

-----------------------------------------------------------------------------
(* CompositeTiffLayer: processComposite *)

\* catch (err): setError(message); setLoading(false); imageUrl and bounds
\* stay as they are
CompositeCatch(message) ==
    /\ c_error' = message
    /\ c_loading' = FALSE
    /\ c_pc' = "failed"

\* setBounds([sw, ne]); map.fitBounds([sw, ne]); setLoading(false)
CompositePublish(b) ==
    /\ c_bounds' = Some(b)
    /\ c_loading' = FALSE
    /\ c_pc' = "rendered"
    /\ UNCHANGED c_error

\* useEffect with three bands: setLoading(true); setError(null); the three
\* loadBand calls are started, each up to its file.arrayBuffer(), and the
\* build waits for all of them
C_Start ==
    /\ c_pc = "idle"
    /\ c_bands.r # None /\ c_bands.g # None /\ c_bands.b # None
    /\ c_loading' = TRUE
    /\ c_error' = Null
    /\ c_pc' = "loading"
    /\ c_bufferRead' = {"r", "g", "b"}
    /\ c_loaded' = [r |-> "pending", g |-> "pending", b |-> "pending"]
    /\ UNCHANGED <<c_bands, c_target, c_arrays, c_stats, c_pixels, c_imageUrl, c_prev,
                   c_bounds, c_sourceProj, c_transformed, rsVars, uiVars, tVars>>

\* one loadBand promise settles: fulfilled with the image, or rejected when
\* geotiff cannot parse the file
C_BandSettled(X) ==
    /\ c_loaded[X] = "pending"
    /\ c_loaded' = [c_loaded EXCEPT ![X] = IF c_bands[X][1].decodable THEN "ok"
                                                                      ELSE "failed"]
    /\ UNCHANGED <<c_bands, c_pc, c_target, c_arrays, c_stats, c_pixels, c_imageUrl,
                   c_error, c_loading, c_prev, c_bounds, c_sourceProj, c_transformed,
                   c_bufferRead, rsVars, uiVars, tVars>>

\* Promise.all of the loadBand calls rejects once one of them has: the catch
\* block runs
C_LoadFailed ==
    /\ c_pc = "loading"
    /\ \E X \in {"r", "g", "b"} : c_loaded[X] = "failed"
    /\ CompositeCatch("RGB Processing Failed")
    /\ UNCHANGED <<c_bands, c_target, c_arrays, c_stats, c_pixels, c_imageUrl, c_prev,
                   c_bounds, c_sourceProj, c_transformed, c_bufferRead, c_loaded,
                   rsVars, uiVars, tVars>>

\* Promise.all of the loadBand calls is fulfilled: the dimensions of the red
\* band, the downsample, then the three readRaster calls are started
C_LoadedAny ==
    /\ c_pc = "loading"
    /\ \E X \in {"r", "g", "b"} : c_loaded[X] = "ok"
    /\ c_target' = TargetSize(c_bands.r[1].width, c_bands.r[1].height, MaxDimComposite)
    /\ c_pc' = "reading"
    /\ UNCHANGED <<c_bands, c_arrays, c_stats, c_pixels, c_imageUrl, c_error, c_loading,
                   c_prev, c_bounds, c_sourceProj, c_transformed, c_bufferRead,
                   c_loaded, rsVars, uiVars, tVars>>
C_Loaded ==
    /\ c_pc = "loading"
    /\ \A X \in {"r", "g", "b"} : c_loaded[X] = "ok"
    /\ c_target' = TargetSize(c_bands.r[1].width, c_bands.r[1].height, MaxDimComposite)
    /\ c_pc' = "reading"
    /\ UNCHANGED <<c_bands, c_arrays, c_stats, c_pixels, c_imageUrl, c_error, c_loading,
                   c_prev, c_bounds, c_sourceProj, c_transformed, c_bufferRead,
                   c_loaded, rsVars, uiVars, tVars>>

\* the part of processComposite from "Set bounds (from red band)" on
CompositeBounds ==
    IF c_bands.r[1].bbox = None
    THEN /\ CompositeCatch("RGB Processing Failed")
         /\ UNCHANGED <<c_bounds, c_sourceProj, c_transformed>>
    ELSE LET bbox == c_bands.r[1].bbox[1]
             sourceProj == CompositeSourceProj(c_bands.r[1].geoKeys)
         IN /\ c_sourceProj' = sourceProj
            /\ IF ~NeedsTransform(sourceProj, bbox)
               THEN /\ CompositePublish(Direct(bbox))
                    /\ UNCHANGED c_transformed
               ELSE IF sourceProj \in Proj4Defs
               THEN /\ c_transformed' = TRUE
                    /\ CompositePublish(Transformed(sourceProj, bbox))
               ELSE /\ CompositeCatch("Could not parse to valid json")
                    /\ UNCHANGED <<c_bounds, c_transformed>>

\* the three readRaster calls are settled: getStats of each band, the combine
\* loop, setImageUrl and the bounds; or the catch block when a read threw
C_Render ==
    /\ c_pc = "reading"
    /\ \E outcome \in WindowOutcomes(c_bands, c_bands.r[1].width, c_bands.r[1].height) :
          IF outcome = "throws"
          THEN /\ CompositeCatch("Select window is out of image bounds")
               /\ UNCHANGED <<c_arrays, c_stats, c_pixels, c_imageUrl, c_bounds,
                              c_sourceProj, c_transformed>>
          ELSE LET width == c_bands.r[1].width
                   height == c_bands.r[1].height
                   arr == [r |-> readRaster(c_bands.r[1], width, height, c_target),
                           g |-> readRaster(c_bands.g[1], width, height, c_target),
                           b |-> readRaster(c_bands.b[1], width, height, c_target)]
                   st == [r |-> getStats(arr.r), g |-> getStats(arr.g),
                          b |-> getStats(arr.b)]
               IN /\ c_arrays' = arr
                  /\ c_stats' = st
                  /\ c_pixels' = Combine(arr, st)
                  /\ c_imageUrl' = "dataURL"
                  /\ CompositeBounds
    /\ UNCHANGED <<c_bands, c_target, c_prev, c_bufferRead, c_loaded, rsVars, uiVars, tVars>>

\* the parent re-renders the layer with another file for one band after a
\* build: the effect runs again; the finished build is remembered in c_prev
C_ChangeBand ==
    /\ c_pc = "rendered"
    /\ Len(c_prev) < MaxChanges
    /\ \E band \in {"r", "g", "b"} : \E f \in AltFiles(c_bands[band][1]) :
          /\ f # c_bands[band][1]
          /\ c_bands' = [c_bands EXCEPT ![band] = Some(f)]
    /\ c_prev' = Append(c_prev, [arrays |-> c_arrays, pixels |-> c_pixels])
    /\ c_pc' = "idle"
    /\ c_target' = ZeroSize
    /\ c_arrays' = [r |-> <<>>, g |-> <<>>, b |-> <<>>]
    /\ c_stats' = [r |-> EmptyRange, g |-> EmptyRange, b |-> EmptyRange]
    /\ c_pixels' = <<>>
    /\ c_sourceProj' = 0
    /\ c_transformed' = FALSE
    /\ c_bufferRead' = {}
    /\ c_loaded' = NotLoading
    /\ UNCHANGED <<c_imageUrl, c_error, c_loading, c_bounds, rsVars, uiVars, tVars>>

-----------------------------------------------------------------------------
(* HeatmapLayer: the effect and its cleanup *)

\* the map after the cleanup of the effect run before: map.removeLayer(heatLayer)
CleanedNothing == h_layers
Cleaned ==
    IF h_cleanup = None THEN h_layers ELSE removeLayer(h_layers, h_cleanup[1])

\* the effect with the props on a map that holds the layers: nothing for no
\* points; else the normalisation, the heat layer added to the map, the map
\* fitted to the points, and the cleanup that removes this layer
HeatEffectUnguarded(props, layers) ==
    LET layer == heatLayer(props)
    IN /\ h_layers' = Append(layers, layer)
       /\ h_cleanup' = Some(layer)
       /\ IF Len(props.points) = 0
          THEN h_effect' = None /\ UNCHANGED h_view
          ELSE /\ h_effect' = Some(Normalization(props.points, props.minTemp, props.maxTemp))
               /\ h_view' = Some(latLngBounds(layer.latlngs))
HeatEffect(props, layers) ==
    IF Len(props.points) = 0
    THEN /\ h_layers' = layers
         /\ h_cleanup' = None
         /\ h_effect' = None
         /\ UNCHANGED h_view
    ELSE LET layer == heatLayer(props)
         IN /\ h_layers' = Append(layers, layer)
            /\ h_cleanup' = Some(layer)
            /\ h_effect' = Some(Normalization(props.points, props.minTemp, props.maxTemp))
            /\ h_view' = Some(latLngBounds(layer.latlngs))

\* the component mounts: the effect runs for the first time
H_Mount ==
    /\ h_phase = "new"
    /\ h_phase' = "mounted"
    /\ HeatEffect(h_props, h_layers)
    /\ UNCHANGED <<h_props, rsVars, tVars, cVars, bVars, sVars>>

\* the values a prop of the dependency list can change to
PropValues(name) ==
    CASE name = "points" -> PointSets
      [] name = "minTemp" -> Overrides
      [] name = "maxTemp" -> Overrides
      [] name = "radius" -> RadiusOptions
      [] name = "blur" -> {DefaultBlur}
      [] name = "maxZoom" -> {DefaultMaxZoom}
      [] name = "opacity" -> {DefaultOpacity}

\* a render with another value of one prop of the dependency list: the
\* cleanup of the last run, then the effect with the new props
H_Update ==
    /\ h_phase = "mounted"
    /\ \E name \in DOMAIN h_props : \E v \in PropValues(name) :
          /\ v # h_props[name]
          /\ h_props' = [h_props EXCEPT ![name] = v]
          /\ HeatEffect(h_props', Cleaned)
    /\ UNCHANGED <<h_phase, rsVars, tVars, cVars, bVars, sVars>>

\* the component unmounts: the cleanup of the last run
H_Unmount ==
    /\ h_phase = "mounted"
    /\ h_phase' = "unmounted"
    /\ h_layers' = Cleaned
    /\ h_cleanup' = None
    /\ UNCHANGED <<h_props, h_view, h_effect, rsVars, tVars, cVars, bVars, sVars>>

-----------------------------------------------------------------------------
(* analysisStore *)

\* showNotification(message, type): set the notification and start the timer
\* that calls hideNotification after 3 seconds
showNotification(message, type) ==
    /\ s_notification' = Some([message |-> message, type |-> type])
    /\ s_timers' = Append(s_timers, s_now + HideDelay)
    /\ s_shownAt' = Some(s_now)

\* hideNotification()
hideNotification ==
    /\ s_notification' = None
    /\ s_shownAt' = None

\* setAnalysisResult(result), setLoading(loading) and setError(error) as
\* updates of [analysisResult, isLoading, error]
setAnalysisResult(st, result) == [st EXCEPT !.analysisResult = result, !.error = Null]
setLoading(st, loading) == [st EXCEPT !.isLoading = loading]
setError(st, error) == [st EXCEPT !.error = error, !.isLoading = FALSE]

\* get() and set() of the three fields
StoreGet ==
    [analysisResult |-> s_analysisResult, isLoading |-> s_isLoading, error |-> s_error]
StoreSet(st) ==
    /\ s_analysisResult' = st.analysisResult
    /\ s_isLoading' = st.isLoading
    /\ s_error' = st.error

\* the user saves the current analysis under a name: nothing without a
\* result; else the new project at the head and the notification
saveCurrentAnalysisAtTail(name) ==
    /\ Len(s_projects) < MaxProjects /\ Len(s_timers) < MaxTimers
    /\ IF s_analysisResult = None
       THEN UNCHANGED <<s_projects, s_notification, s_timers, s_shownAt>>
       ELSE \E id \in (1..MaxProjects) \ ProjectIds(s_projects) :
               /\ s_projects' = Append(s_projects,
                                       [id |-> id, name |-> name, result |-> s_analysisResult[1]])
               /\ showNotification(<<"Project saved", name>>, "success")
    /\ UNCHANGED <<s_analysisResult, s_isLoading, s_error, s_now, r_bandFiles,
                   r_uploadProgress, r_runs, rsVars, tVars, cVars, bVars, hVars>>
saveCurrentAnalysis(name) ==
    /\ Len(s_projects) < MaxProjects /\ Len(s_timers) < MaxTimers
    /\ IF s_analysisResult = None
       THEN UNCHANGED <<s_projects, s_notification, s_timers, s_shownAt>>
       ELSE \E id \in (1..MaxProjects) \ ProjectIds(s_projects) :
               /\ s_projects' = <<[id |-> id, name |-> name, result |-> s_analysisResult[1]]>>
                                   \o s_projects
               /\ showNotification(<<"Project saved", name>>, "success")
    /\ UNCHANGED <<s_analysisResult, s_isLoading, s_error, s_now, r_bandFiles,
                   r_uploadProgress, r_runs, rsVars, tVars, cVars, bVars, hVars>>

\* the user deletes a project of the list
deleteProject(id) ==
    /\ id \in ProjectIds(s_projects) /\ Len(s_timers) < MaxTimers
    /\ s_projects' = filter(s_projects, id)
    /\ showNotification(<<"Deleted project", find(s_projects, id).name>>, "info")
    /\ UNCHANGED <<s_analysisResult, s_isLoading, s_error, s_now, r_bandFiles,
                   r_uploadProgress, r_runs, rsVars, tVars, cVars, bVars, hVars>>

\* the user loads a project of the list
loadProject(id) ==
    /\ id \in ProjectIds(s_projects) /\ Len(s_timers) < MaxTimers
    /\ s_analysisResult' = Some(find(s_projects, id).result)
    /\ showNotification(<<"Loaded project", find(s_projects, id).name>>, "info")
    /\ UNCHANGED <<s_isLoading, s_error, s_projects, s_now, r_bandFiles,
                   r_uploadProgress, r_runs, rsVars, tVars, cVars, bVars, hVars>>

\* the user renames a project of the list
renameProject(id, newName) ==
    /\ id \in ProjectIds(s_projects) /\ Len(s_timers) < MaxTimers
    /\ s_projects' = [i \in 1..Len(s_projects) |->
                         IF s_projects[i].id = id
                         THEN [s_projects[i] EXCEPT !.name = newName]
                         ELSE s_projects[i]]
    /\ showNotification(<<"Project renamed successfully!", "">>, "success")
    /\ UNCHANGED <<s_analysisResult, s_isLoading, s_error, s_now, r_bandFiles,
                   r_uploadProgress, r_runs, rsVars, tVars, cVars, bVars, hVars>>

\* the user closes the notification
S_Hide ==
    /\ s_notification # None
    /\ hideNotification
    /\ UNCHANGED <<s_analysisResult, s_isLoading, s_error, s_projects, s_timers, s_now,
                   r_bandFiles, r_uploadProgress, r_runs, rsVars, tVars, cVars, bVars,
                   hVars>>

\* the oldest timer is due: its callback calls get().hideNotification()
S_Timeout ==
    /\ s_timers # <<>>
    /\ Head(s_timers) <= s_now
    /\ s_timers' = Tail(s_timers)
    /\ hideNotification
    /\ UNCHANGED <<s_analysisResult, s_isLoading, s_error, s_projects, s_now,
                   r_bandFiles, r_uploadProgress, r_runs, rsVars, tVars, cVars, bVars,
                   hVars>>

\* a second passes; a timer that is due runs before time goes on
S_Tick ==
    /\ s_now < MaxTime
    /\ IF s_timers = <<>> THEN TRUE ELSE Head(s_timers) > s_now
    /\ s_now' = s_now + 1
    /\ UNCHANGED <<s_analysisResult, s_isLoading, s_error, s_projects, s_notification,
                   s_timers, s_shownAt, r_bandFiles, r_uploadProgress, r_runs, rsVars,
                   tVars, cVars, bVars, hVars>>

-----------------------------------------------------------------------------
(* AnalysisPage: handleRunAnalysis *)

\* the user selects band files: all seven, or all but some
R_SelectBands ==
    /\ r_bandFiles' \in {RequiredBands, RequiredBands \ {"B10"}, {}}
    /\ r_bandFiles' # r_bandFiles
    /\ UNCHANGED <<s_analysisResult, s_isLoading, s_error, s_projects, s_notification,
                   s_timers, s_now, s_shownAt, r_uploadProgress, r_runs, rsVars, tVars,
                   cVars, bVars, hVars>>

\* the state of the store after setLoading(true); setError(null);
\* setAnalysisResult(null)
RunReset(st) == setAnalysisResult(setError(setLoading(st, TRUE), Null), None)

\* a click on the button, which is enabled when every band has a file and
\* isLoading is false: the resets, the check of the bands, then the wait for
\* analyzeImagery; with a band missing the catch and finally blocks run at once
R_Run ==
    /\ r_bandFiles = RequiredBands /\ ~s_isLoading
    /\ r_runs < MaxRuns
    /\ r_uploadProgress' = 0
    /\ IF RequiredBands \ r_bandFiles # {}
       THEN /\ StoreSet(setLoading(setError(RunReset(StoreGet), "Please upload all required bands"),
                                   FALSE))
            /\ UNCHANGED r_runs
       ELSE /\ StoreSet(RunReset(StoreGet))
            /\ r_runs' = r_runs + 1
    /\ UNCHANGED <<s_projects, s_notification, s_timers, s_now, s_shownAt, r_bandFiles,
                   rsVars, tVars, cVars, bVars, hVars>>

\* the upload reports progress to a waiting call
R_Progress ==
    /\ r_runs > 0
    /\ \E p \in ProgressSteps : p # r_uploadProgress /\ r_uploadProgress' = p
    /\ UNCHANGED <<s_analysisResult, s_isLoading, s_error, s_projects, s_notification,
                   s_timers, s_now, s_shownAt, r_bandFiles, r_runs, rsVars, tVars, cVars,
                   bVars, hVars>>

\* analyzeImagery returns the result document: setAnalysisResult(result), then
\* the finally block
R_Succeed ==
    /\ r_runs > 0
    /\ \E result \in Results :
          StoreSet(setLoading(setAnalysisResult(StoreGet, Some(result)), FALSE))
    /\ r_runs' = r_runs - 1
    /\ r_uploadProgress' = 0
    /\ UNCHANGED <<s_projects, s_notification, s_timers, s_now, s_shownAt, r_bandFiles,
                   rsVars, tVars, cVars, bVars, hVars>>

\* analyzeImagery throws: setError(message), then the finally block
R_Fail ==
    /\ r_runs > 0
    /\ \E message \in Failures :
          StoreSet(setLoading(setError(StoreGet, message), FALSE))
    /\ r_runs' = r_runs - 1
    /\ r_uploadProgress' = 0
    /\ UNCHANGED <<s_projects, s_notification, s_timers, s_now, s_shownAt, r_bandFiles,
                   rsVars, tVars, cVars, bVars, hVars>>

-----------------------------------------------------------------------------
(* TiffLayer: builds that overlap *)

\* the state of the TiffLayer after the setImageUrl, setBounds, setError and
\* setLoading calls of a step
setTiffState(imageUrl, bounds, error, loading) ==
    /\ t_imageUrl' = imageUrl
    /\ t_bounds' = bounds
    /\ t_error' = error
    /\ t_loading' = loading

\* catch (err): setError(message); setImageUrl(null); setBounds(null); setLoading(false)
catchTiff(message) == setTiffState(Null, None, message, FALSE)

\* "Validate coordinates", then setBounds, map.fitBounds and setLoading(false)
publishTiff(imageUrl, b) ==
    IF InvalidCoordinates(b)
    THEN catchTiff("Invalid coordinates after transformation")
    ELSE setTiffState(imageUrl, Some(b), t_error, FALSE)

\* the parent renders the TiffLayer with another file or with null: the
\* effect resets the state for null; else setLoading(true), setError(null),
\* the size check, and the new call of processTiff waits for
\* file.arrayBuffer(); calls that wait already go on
T_SetFile ==
    /\ mapViewMode = "thermal"
    /\ \E input \in FileInputs :
          /\ input # t_file
          /\ t_file' = input
          /\ IF input = None
             THEN /\ setTiffState(Null, None, Null, t_loading)
                  /\ UNCHANGED t_builds
             ELSE IF input[1].size > MaxFileBytes
             THEN /\ catchTiff("File too large")
                  /\ UNCHANGED t_builds
             ELSE /\ Len(t_builds) < MaxBuilds
                  /\ setTiffState(t_imageUrl, t_bounds, Null, TRUE)
                  /\ t_builds' = Append(t_builds, [file |-> input[1], pc |-> "decoding",
                                                   target |-> ZeroSize, sourceProj |-> 0])
    /\ UNCHANGED <<tBuildVars, c_builds, mapViewMode, rsVars, cVars, hVars, sVars>>

\* the buffer of the i-th waiting call arrived: fromArrayBuffer and getImage,
\* the auto-downsample, then the call waits for image.readRasters
T_BuildDecode(i) ==
    /\ i <= Len(t_builds)
    /\ t_builds[i].pc = "decoding"
    /\ LET file == t_builds[i].file
       IN IF file.decodable
          THEN /\ t_builds' = [t_builds EXCEPT
                                 ![i].pc = "reading",
                                 ![i].target = TargetSize(file.width, file.height, MaxDimTiff)]
               /\ UNCHANGED <<t_imageUrl, t_bounds, t_error, t_loading>>
          ELSE /\ catchTiff("Failed to process TIFF")
               /\ t_builds' = Without(t_builds, i)
    /\ UNCHANGED <<t_file, tBuildVars, c_builds, mapViewMode, rsVars, cVars, hVars, sVars>>

\* the raster of the i-th waiting call is read: the domain, the rendering,
\* setImageUrl, the bounding box and the source projection; then the call
\* waits for import('proj4'), or validates and publishes the bounds
T_BuildRender(i) ==
    /\ i <= Len(t_builds)
    /\ t_builds[i].pc = "reading"
    /\ LET file == t_builds[i].file
           data == readRasters(file, t_builds[i].target)
           st == TiffDomain(data)
           sourceProj == TiffSourceProj(file.geoKeys)
       IN IF Len(data) = 0
          THEN /\ catchTiff("Failed to read TIFF data")
               /\ t_builds' = Without(t_builds, i)
          ELSE IF NoValidData(st)
          THEN /\ catchTiff("No valid data values found")
               /\ t_builds' = Without(t_builds, i)
          ELSE IF file.bbox = None
          THEN /\ catchTiff("TIFF has no geographic bounds")
               /\ t_builds' = Without(t_builds, i)
          ELSE IF NeedsTransform(sourceProj, file.bbox[1])
          THEN /\ setTiffState(toDataURL(TiffCanvas(data, st)), t_bounds, t_error, t_loading)
               /\ t_builds' = [t_builds EXCEPT ![i].pc = "importing",
                                               ![i].sourceProj = sourceProj]
          ELSE /\ publishTiff(toDataURL(TiffCanvas(data, st)), Direct(file.bbox[1]))
               /\ t_builds' = Without(t_builds, i)
    /\ UNCHANGED <<t_file, tBuildVars, c_builds, mapViewMode, rsVars, cVars, hVars, sVars>>

\* proj4 is imported for the i-th waiting call: the corners are transformed,
\* validated and published, or proj4 throws
T_BuildTransform(i) ==
    /\ i <= Len(t_builds)
    /\ t_builds[i].pc = "importing"
    /\ IF t_builds[i].sourceProj \in Proj4Defs
       THEN publishTiff(t_imageUrl,
                        Transformed(t_builds[i].sourceProj, t_builds[i].file.bbox[1]))
       ELSE catchTiff("Cannot transform to WGS84")
    /\ t_builds' = Without(t_builds, i)
    /\ UNCHANGED <<t_file, tBuildVars, c_builds, mapViewMode, rsVars, cVars, hVars, sVars>>

-----------------------------------------------------------------------------
(* CompositeTiffLayer: builds that overlap *)

\* the state of the CompositeTiffLayer after the set calls of a step
setCompositeState(imageUrl, bounds, error, loading) ==
    /\ c_imageUrl' = imageUrl
    /\ c_bounds' = bounds
    /\ c_error' = error
    /\ c_loading' = loading

\* the missing-band branch of the effect: setImageUrl(null); setBounds(null)
resetComposite == setCompositeState(Null, None, c_error, c_loading)

\* catch (err): setError(message); setLoading(false); the image set before
\* the throw stays
catchComposite(imageUrl, message) ==
    setCompositeState(imageUrl, c_bounds, message, FALSE)

\* the parent renders the CompositeTiffLayer with other bands: the effect
\* resets image and bounds when a band is missing; else setLoading(true),
\* setError(null), and the new call of processComposite waits for the three
\* loadBand calls; calls that wait already go on
C_SetBands ==
    /\ mapViewMode = "truecolor"
    /\ \E bands \in BandInputs :
          /\ bands # c_bands
          /\ c_bands' = bands
          /\ IF BandMissing(bands)
             THEN /\ resetComposite
                  /\ UNCHANGED c_builds
             ELSE /\ Len(c_builds) < MaxBuilds
                  /\ setCompositeState(c_imageUrl, c_bounds, Null, TRUE)
                  /\ c_builds' = Append(c_builds, [bands |-> bands, pc |-> "loading",
                                                   target |-> ZeroSize])
    /\ UNCHANGED <<cBuildVars, t_builds, mapViewMode, rsVars, tVars, hVars, sVars>>

\* Promise.all of the loadBand calls of the i-th waiting call settles: with
\* a band geotiff cannot parse the catch block runs; else the dimensions of
\* the red band, the downsample, and the call waits for the readRaster calls
C_BuildLoaded(i) ==
    /\ i <= Len(c_builds)
    /\ c_builds[i].pc = "loading"
    /\ LET bands == c_builds[i].bands
       IN IF \A X \in {"r", "g", "b"} : bands[X][1].decodable
          THEN /\ c_builds' = [c_builds EXCEPT
                                 ![i].pc = "reading",
                                 ![i].target = TargetSize(bands.r[1].width, bands.r[1].height,
                                                          MaxDimComposite)]
               /\ UNCHANGED <<c_imageUrl, c_bounds, c_error, c_loading>>
          ELSE /\ catchComposite(c_imageUrl, "RGB Processing Failed")
               /\ c_builds' = Without(c_builds, i)
    /\ UNCHANGED <<c_bands, cBuildVars, t_builds, mapViewMode, rsVars, tVars, hVars, sVars>>

\* the readRaster calls of the i-th waiting call are settled: getStats, the
\* combine loop, setImageUrl, the bounds from the red band, setBounds and
\* setLoading(false); or the catch block
C_BuildRender(i) ==
    /\ i <= Len(c_builds)
    /\ c_builds[i].pc = "reading"
    /\ LET bands == c_builds[i].bands
           width == bands.r[1].width
           height == bands.r[1].height
           target == c_builds[i].target
       IN \E outcome \in WindowOutcomes(bands, width, height) :
             IF outcome = "throws"
             THEN catchComposite(c_imageUrl, "Select window is out of image bounds")
             ELSE LET arr == [r |-> readRaster(bands.r[1], width, height, target),
                              g |-> readRaster(bands.g[1], width, height, target),
                              b |-> readRaster(bands.b[1], width, height, target)]
                      st == [r |-> getStats(arr.r), g |-> getStats(arr.g),
                             b |-> getStats(arr.b)]
                      imageUrl == toDataURL(Combine(arr, st))
                      sourceProj == CompositeSourceProj(bands.r[1].geoKeys)
                  IN IF bands.r[1].bbox = None
                     THEN catchComposite(imageUrl, "RGB Processing Failed")
                     ELSE IF ~NeedsTransform(sourceProj, bands.r[1].bbox[1])
                     THEN setCompositeState(imageUrl, Some(Direct(bands.r[1].bbox[1])),
                                            c_error, FALSE)
                     ELSE IF sourceProj \in Proj4Defs
                     THEN setCompositeState(imageUrl,
                                            Some(Transformed(sourceProj, bands.r[1].bbox[1])),
                                            c_error, FALSE)
                     ELSE catchComposite(imageUrl, "Could not parse to valid json")
    /\ c_builds' = Without(c_builds, i)
    /\ UNCHANGED <<c_bands, cBuildVars, t_builds, mapViewMode, rsVars, tVars, hVars, sVars>>

-----------------------------------------------------------------------------
(* Specifications *)

Next ==
    \/ T_Start
    \/ T_Decode
    \/ T_Render
    \/ T_Transform
    \/ C_Start
    \/ \E X \in {"r", "g", "b"} : C_BandSettled(X)
    \/ C_LoadFailed
    \/ C_Loaded
    \/ C_Render
    \/ C_ChangeBand

\* the overlay builds of TiffLayer and CompositeTiffLayer
Spec == Init /\ [][Next]_vars

NextResample == Resample

\* the resampler alone, on rasters of any size
SpecResample == InitResampler /\ [][NextResample]_vars

\* the map shows a TiffLayer without file, or a CompositeTiffLayer without
\* bands
InitBuilds ==
    /\ mapViewMode \in {"thermal", "truecolor"}
    /\ t_builds = <<>> /\ c_builds = <<>>
    /\ t_file = None /\ TiffFresh
    /\ c_bands = NoBands /\ CompositeFresh
    /\ ResampleIdle /\ HeatNew /\ h_props = NoPoints /\ StoreNew /\ PageNew

NextBuilds ==
    \/ T_SetFile
    \/ \E i \in 1..MaxBuilds : T_BuildDecode(i)
    \/ \E i \in 1..MaxBuilds : T_BuildRender(i)
    \/ \E i \in 1..MaxBuilds : T_BuildTransform(i)
    \/ C_SetBands
    \/ \E i \in 1..MaxBuilds : C_BuildLoaded(i)
    \/ \E i \in 1..MaxBuilds : C_BuildRender(i)

\* a layer whose input changes while its builds wait
SpecBuilds == InitBuilds /\ [][NextBuilds]_vars

\* a HeatmapLayer about to mount with any props
InitHeat ==
    /\ h_props \in HeatProps
    /\ HeatNew
    /\ t_file = None /\ TiffFresh
    /\ c_bands = NoBands /\ CompositeFresh
    /\ ResampleIdle /\ NoBuilds /\ StoreNew /\ PageNew

NextHeat ==
    \/ H_Mount
    \/ H_Update
    \/ H_Unmount

\* the life of a HeatmapLayer: mount, renders with other props, unmount
SpecHeat == InitHeat /\ [][NextHeat]_vars

\* the projects the persist middleware restores from localStorage
Persisted == {<<>>, <<[id |-> 1, name |-> "first", result |-> "job-1"]>>}

\* the store with the persisted projects and the result of an analysis, if
\* one was run, at a time when no notification is shown
InitStore ==
    /\ s_analysisResult \in {None} \cup {Some(result) : result \in Results}
    /\ s_isLoading = FALSE
    /\ s_error = Null
    /\ s_projects \in Persisted
    /\ s_notification = None
    /\ s_timers = <<>>
    /\ s_now = 0
    /\ s_shownAt = None
    /\ PageNew
    /\ t_file = None /\ TiffFresh
    /\ c_bands = NoBands /\ CompositeFresh
    /\ ResampleIdle /\ NoBuilds /\ HeatNew /\ h_props = NoPoints

NextStore ==
    \/ \E name \in Names : saveCurrentAnalysis(name)
    \/ \E id \in 1..MaxProjects : deleteProject(id)
    \/ \E id \in 1..MaxProjects : loadProject(id)
    \/ \E id \in 1..MaxProjects : \E newName \in Names : renameProject(id, newName)
    \/ S_Hide
    \/ S_Timeout
    \/ S_Tick

\* the projects and notifications of the analysis store, with its timers
SpecStore == InitStore /\ [][NextStore]_vars

\* a new store with the persisted projects and a new AnalysisPage
InitRun ==
    /\ s_analysisResult = None
    /\ s_isLoading = FALSE
    /\ s_error = Null
    /\ s_projects \in Persisted
    /\ s_notification = None
    /\ s_timers = <<>>
    /\ s_now = 0
    /\ s_shownAt = None
    /\ PageNew
    /\ t_file = None /\ TiffFresh
    /\ c_bands = NoBands /\ CompositeFresh
    /\ ResampleIdle /\ NoBuilds /\ HeatNew /\ h_props = NoPoints

NextRun ==
    \/ R_SelectBands
    \/ R_Run
    \/ R_Progress
    \/ R_Succeed
    \/ R_Fail
    \/ \E id \in 1..MaxProjects : loadProject(id)

\* handleRunAnalysis of the AnalysisPage on the store, and the other writer
\* of analysisResult, loadProject
SpecRun == InitRun /\ [][NextRun]_vars

-----------------------------------------------------------------------------
(* Properties *)

\* what the specification calls an invalid sample: the no-data sentinel,
\* zero, or a non-finite value
SpecInvalid(v) == v = Num(NoData) \/ v = Num(0) \/ v.k # "num"
SpecValid(v) == ~SpecInvalid(v)

Bands == {"r", "g", "b"}
Opaque(px) == px.a = 255

\* C5: for every input with width >= 1 and height >= 1 the resampler's target
\* size has max(targetWidth, targetHeight) <= maxDim (2048 single-band, 1024
\* composite), and it equals the input size when neither input dimension
\* exceeds maxDim.
C5_ResampleBounded ==
    rsOutput # None =>
        LET in == rsInput[1]
            out == rsOutput[1]
            maxDim == IF in.mode = "tiff" THEN 2048 ELSE 1024
        IN /\ Max2(out.targetWidth, out.targetHeight) <= maxDim
           /\ (in.width <= maxDim /\ in.height <= maxDim) =>
                 (out.targetWidth = in.width /\ out.targetHeight = in.height)

\* a raster taller than maxDim was downsampled to exactly maxDim rows
C5_Witness ==
    /\ rsOutput # None
    /\ rsInput[1].height > 2048
    /\ rsInput[1].width > 1024
    /\ rsInput[1].height > rsInput[1].width
    /\ rsOutput[1].targetHeight = maxDimOf(rsInput[1].mode)
    /\ rsOutput[1].targetWidth < rsInput[1].width

\* C6: the resampler never produces a zero-size result: for every input with
\* width >= 1 and height >= 1 both targetWidth >= 1 and targetHeight >= 1.
C6_NoZeroSize ==
    rsOutput # None => rsOutput[1].targetWidth >= 1 /\ rsOutput[1].targetHeight >= 1

\* the statistics stage of processTiff has run
TiffStatsRan == t_pc \in {"importing", "rendered", "failed"} /\ Len(t_data) > 0
\* the synchronous stage of processComposite (statistics, combine) has run
CompositeRan == c_pc = "rendered"

\* C1: for every pixel i of every produced overlay image, alpha is 0 if the
\* original sample at i is -9999, 0 or non-finite, and 255 otherwise; in
\* composite mode this holds for the sample of each contributing band.
C1_AlphaMask ==
    /\ t_pc = "rendered" =>
          \A i \in 1..Len(t_data) :
              t_alpha[i] = IF SpecInvalid(t_data[i]) THEN 0 ELSE 255
    /\ CompositeRan =>
          \A i \in 1..Len(c_pixels) :
              c_pixels[i].a = IF \E X \in Bands : SpecInvalid(c_arrays[X][i])
                              THEN 0 ELSE 255

\* the claim's notion of a usable sample: distinct from the sentinel, zero and NaN
ClaimUsable(v) == v # Num(NoData) /\ v # Num(0) /\ v # NaN
NonEmptyRange(st) == ~(st.min = PosInf /\ st.max = NegInf)

\* C2 (as claimed): every sample array with at least one value distinct from
\* the sentinel, zero and NaN yields a non-empty range with min <= max, in the
\* full scan of TiffLayer and in the strided getStats.
C2_Original ==
    /\ TiffStatsRan =>
          ((\E i \in 1..Len(t_data) : ClaimUsable(t_data[i]))
              => (t_error # "No valid data values found" /\ t_stats.validCount > 0
                  /\ NonEmptyRange(t_stats) /\ Le(t_stats.min, t_stats.max)))
    /\ CompositeRan =>
          \A X \in Bands :
              (\E i \in 1..Len(c_arrays[X]) : ClaimUsable(c_arrays[X][i]))
                  => (NonEmptyRange(c_stats[X]) /\ Le(c_stats[X].min, c_stats[X].max))

\* index i (from 1) is one getStats reads: 0, step, 2*step, ... from 0
Inspected(i, len) == (i - 1) % Max2(1, len \div 5000) = 0

\* C2 (amended): every sample array in which at least one inspected sample is
\* usable yields a non-empty range with min <= max; TiffLayer inspects every
\* sample and takes the finite, non-zero, non-sentinel ones, getStats inspects
\* every step-th sample and takes the non-zero, non-sentinel, non-NaN ones.
C2_NonEmptyRange ==
    /\ TiffStatsRan =>
          ((\E i \in 1..Len(t_data) : SpecValid(t_data[i]))
              => (t_error # "No valid data values found" /\ t_stats.validCount > 0
                  /\ NonEmptyRange(t_stats) /\ Le(t_stats.min, t_stats.max)))
    /\ CompositeRan =>
          \A X \in Bands :
              (\E i \in 1..Len(c_arrays[X]) :
                    Inspected(i, Len(c_arrays[X])) /\ ClaimUsable(c_arrays[X][i]))
                  => (NonEmptyRange(c_stats[X]) /\ Le(c_stats[X].min, c_stats[X].max))

\* getStats ran with a stride over a band that holds usable samples both at
\* inspected and at skipped indices, and returned a proper range
C2_Witness ==
    /\ CompositeRan
    /\ Len(c_arrays.r) >= 10000
    /\ \E i, j \in 1..3 :
          /\ Inspected(i, Len(c_arrays.r)) /\ ClaimUsable(c_arrays.r[i])
          /\ ~Inspected(j, Len(c_arrays.r)) /\ ClaimUsable(c_arrays.r[j])
    /\ Lt(c_stats.r.min, c_stats.r.max)

\* C3: min and max are computed only over samples that are finite, non-zero
\* and not the sentinel; a non-empty range never has min or max equal to the
\* sentinel, to 0 or to an infinite value.
C3_ValidOnly ==
    /\ t_pc = "rendered" =>
          /\ SpecValid(t_stats.min) /\ SpecValid(t_stats.max)
          /\ \E i, j \in 1..Len(t_data) : t_data[i] = t_stats.min /\ t_data[j] = t_stats.max
    /\ CompositeRan =>
          \A X \in Bands :
              NonEmptyRange(c_stats[X])
                  => SpecValid(c_stats[X].min) /\ SpecValid(c_stats[X].max)

\* C4: when the statistics stage finds no usable sample for a band, the build
\* aborts with an error and neither stretches pixels nor publishes an image.
C4_EmptyRangeTerminal ==
    /\ (TiffStatsRan /\ t_stats.validCount = 0) =>
          (t_pc = "failed" /\ t_error # Null /\ t_imageUrl = Null /\ t_alpha = <<>>)
    /\ (CompositeRan /\ \E X \in Bands : ~NonEmptyRange(c_stats[X])) =>
          (c_error # Null /\ c_imageUrl = Null /\ c_pixels = <<>>)

\* the byte a sample v of channel X got at an opaque pixel, as <<v, byte>>
Stretched(X) ==
    {<<c_arrays[X][i], c_pixels[i][X]>> : i \in {k \in 1..Len(c_pixels) : Opaque(c_pixels[k])}}

\* clamp(0, 255, ((v - lo) / (hi - lo))^0.8 * 255) for integers lo < hi
ClampedGamma(v, lo, hi) ==
    IF v <= lo THEN 0
    ELSE IF v >= hi THEN 255
    ELSE (CHOOSE e \in PowTable : e.p * (hi - lo) = e.q * (v - lo)).byte

\* C7: for a range with min < max every valid sample v maps to
\* clamp(0, 255, ((v-min)/(max-min))^gamma * 255): the result lies in 0..255,
\* v = min maps to 0, v = max maps to 255, samples below min map to 0 and
\* samples above max map to 255.
C7_Stretch ==
    CompositeRan =>
        \A X \in Bands : \A s \in Stretched(X) :
            LET v == s[1]
                out == s[2]
                st == c_stats[X]
            IN (SpecValid(v) /\ Lt(st.min, st.max)) =>
                  /\ out \in 0..255
                  /\ (isFinite(st.min) /\ isFinite(st.max))
                        => out = ClampedGamma(v.n, st.min.n, st.max.n)
                  /\ Le(v, st.min) => out = 0
                  /\ Le(st.max, v) => out = 255

\* C8: when a band's range has max == min, every valid sample of that band is
\* stretched to the constant 128.
C8_Degenerate ==
    CompositeRan =>
        \A X \in Bands : \A s \in Stretched(X) :
            (SpecValid(s[1]) /\ StrictEq(c_stats[X].min, c_stats[X].max)) => s[2] = 128

\* C9: the stretch is monotonic: for a fixed range (min, max), two valid
\* samples v1 < v2 with min <= v1 and v2 <= max have stretched(v1) <= stretched(v2).
C9_Monotonic ==
    CompositeRan =>
        \A X \in Bands : \A s1, s2 \in Stretched(X) :
            (/\ SpecValid(s1[1]) /\ SpecValid(s2[1])
             /\ Lt(s1[1], s2[1])
             /\ Le(c_stats[X].min, s1[1]) /\ Le(s2[1], c_stats[X].max))
                => s1[2] <= s2[2]

\* one band holds its minimum, a sample inside its range and its maximum, and
\* the three are stretched to 0, to a byte strictly in between, and to 255
C9_Witness ==
    /\ CompositeRan
    /\ \E X \in Bands : \E s1, s2, s3 \in Stretched(X) :
          /\ s1[1] = c_stats[X].min /\ s3[1] = c_stats[X].max
          /\ Lt(s1[1], s2[1]) /\ Lt(s2[1], s3[1])
          /\ s1[2] = 0 /\ s3[2] = 255
          /\ s1[2] < s2[2] /\ s2[2] < s3[2]

\* the least and the greatest of the samples of arr that getStats takes
\* (Infinity and -Infinity when it takes none)
TakenBy(arr) ==
    {arr[i] : i \in {k \in 1..Len(arr) : Inspected(k, Len(arr)) /\ ClaimUsable(arr[k])}}
OwnRange(arr) ==
    LET V == TakenBy(arr)
    IN IF V = {} THEN [min |-> PosInf, max |-> NegInf]
       ELSE [min |-> CHOOSE m \in V : \A v \in V : ~Lt(v, m),
             max |-> CHOOSE m \in V : \A v \in V : ~Gt(v, m)]

CompositeSettled == c_pc \in {"rendered", "failed"}

\* the three band files do not agree on width and height
DimensionMismatch ==
    \E X \in Bands :
        \/ c_bands[X][1].width # c_bands.r[1].width
        \/ c_bands[X][1].height # c_bands.r[1].height

\* C11: if the three contributing bands do not agree on pixel dimensions, the
\* composite build fails with an error and publishes no image; it never uses
\* the red band's dimensions for all three.
C11_FailFast ==
    (CompositeSettled /\ DimensionMismatch) =>
        (c_pc = "failed" /\ c_error # Null /\ c_imageUrl = Null /\ c_pixels = <<>>)

\* the same file is given as red, green and blue band
IdenticalBands == c_bands.r = c_bands.g /\ c_bands.g = c_bands.b

\* C12: a composite built from three identical input bands (same values, same
\* dimensions) is strictly grayscale: R = G = B at every opaque pixel.
C12_Grayscale ==
    (c_pixels # <<>> /\ IdenticalBands) =>
        \A i \in 1..Len(c_pixels) :
            Opaque(c_pixels[i]) =>
                (c_pixels[i].r = c_pixels[i].g /\ c_pixels[i].g = c_pixels[i].b)

\* a composite of three identical bands has a black, a white and a grey
\* opaque pixel and a transparent one
C12_Witness ==
    /\ CompositeRan
    /\ IdenticalBands
    /\ \E i \in 1..Len(c_pixels) :
          Opaque(c_pixels[i]) /\ c_pixels[i].r = 0 /\ c_pixels[i].b = 0
    /\ \E j \in 1..Len(c_pixels) :
          Opaque(c_pixels[j]) /\ c_pixels[j].r = 255 /\ c_pixels[j].g = 255
    /\ \E k \in 1..Len(c_pixels) :
          /\ Opaque(c_pixels[k]) /\ c_pixels[k].g > 0 /\ c_pixels[k].g < 255
          /\ c_pixels[k].r = c_pixels[k].g /\ c_pixels[k].b = c_pixels[k].g
    /\ \E l \in 1..Len(c_pixels) : ~Opaque(c_pixels[l])

\* one of the three loadBand promises of the current build was rejected
LoadFailed == \E X \in Bands : c_loaded[X] = "failed"

\* the current build got past the wait for the three loads
PastLoading ==
    \/ c_pc \in {"reading", "rendered"}
    \/ c_target # ZeroSize \/ c_arrays.r # <<>> \/ c_pixels # <<>>
    \/ c_stats # [r |-> EmptyRange, g |-> EmptyRange, b |-> EmptyRange]

C13_State ==
    /\ PastLoading => \A X \in Bands : c_loaded[X] = "ok"
    /\ LoadFailed =>
          /\ c_pc \in {"loading", "failed"}
          /\ c_pc = "loading" => (ENABLED C_LoadFailed /\ ~ENABLED C_Loaded)
          /\ c_pc = "failed" => (c_error # Null /\ ~c_loading)

C13_Step == LoadFailed => (c_imageUrl' = c_imageUrl /\ c_bounds' = c_bounds)

\* C13: the composite build proceeds to statistics and stretching only after
\* all three band loads have completed; if one of the three loads fails the
\* build can only go on to the catch block and ends with an error, and from
\* the moment a load has failed no step sets the image or the bounds.
C13_FanIn == [](C13_State) /\ [][C13_Step]_vars

\* after a finished build one band was replaced by a file that cannot be
\* parsed: its load failed, another band's load succeeded, the build ended
\* in the catch block, and the image and bounds in the state are still those
\* of the earlier build
C13_Witness ==
    /\ c_pc = "failed"
    /\ c_error # Null
    /\ LoadFailed
    /\ \E Y \in Bands : c_loaded[Y] = "ok"
    /\ c_prev # <<>>
    /\ c_imageUrl # Null /\ c_bounds # None
    /\ c_pixels = <<>>

\* what the components render: the ImageOverlay is returned only with no
\* error, loading false, and an image and bounds in the state
TiffShowsOverlay == t_error = Null /\ ~t_loading /\ t_imageUrl # Null /\ t_bounds # None
CompositeShowsOverlay ==
    ~c_loading /\ c_error = Null /\ c_imageUrl # Null /\ c_bounds # None

TiffSettled == t_pc \in {"rendered", "failed"}

\* a stage of the current build failed: decoding or reprojection threw, or
\* the statistics found no usable sample for a band
TiffStageFailed == t_pc = "failed" \/ (TiffStatsRan /\ t_stats.validCount = 0)
CompositeStageFailed ==
    \/ c_pc = "failed"
    \/ c_pixels # <<>> /\ \E X \in Bands : ~NonEmptyRange(c_stats[X])

\* C14: whenever a stage of an overlay build (decode, statistics,
\* reprojection) fails, the build ends with an error reported and loading
\* false, and the component renders no ImageOverlay for that build.
C14_NoPartialRendering ==
    /\ TiffStageFailed =>
          /\ ~TiffShowsOverlay
          /\ TiffSettled => (t_error # Null /\ ~t_loading)
    /\ CompositeStageFailed =>
          /\ ~CompositeShowsOverlay
          /\ CompositeSettled => (c_error # Null /\ ~c_loading)

\* a file above the maximum accepted size of 500 MB
TooLarge(file) == file.size > 500 * 1024 * 1024

\* C15: in every overlay build (single-band and composite) an input file
\* larger than 500 MB makes the build fail with an error, and file.arrayBuffer
\* is not called on that file before the rejection.
C15_OversizeRejected ==
    /\ (t_file # None /\ t_pc # "idle") =>
          (TooLarge(t_file[1]) =>
              (t_pc = "failed" /\ t_error # Null /\ ~t_bufferRead))
    /\ c_pc # "idle" =>
          \A X \in Bands :
              TooLarge(c_bands[X][1]) =>
                  /\ X \notin c_bufferRead
                  /\ CompositeSettled => (c_pc = "failed" /\ c_error # Null)

\* the source CRS of a raster as the specification selects it: the projected
\* key's code, else the geographic key's code, else EPSG:4326
SpecSourceCrs(file) ==
    IF file.geoKeys # None /\ file.geoKeys[1].ProjectedCSTypeGeoKey # 0
    THEN file.geoKeys[1].ProjectedCSTypeGeoKey
    ELSE IF file.geoKeys # None /\ file.geoKeys[1].GeographicTypeGeoKey # 0
    THEN file.geoKeys[1].GeographicTypeGeoKey
    ELSE 4326

\* south_west = (lat = min_y, lon = min_x), north_east = (lat = max_y, lon = max_x)
IdentityBounds(box) == [sw |-> <<box[2], box[1]>>, ne |-> <<box[4], box[3]>>]

\* C16: when the source CRS is EPSG:4326 the bounds a build publishes are
\* exactly south_west = (lat = min_y, lon = min_x) and north_east =
\* (lat = max_y, lon = max_x), and the build never calls the transform.
C16_GeographicIdentity ==
    /\ (t_file # None /\ SpecSourceCrs(t_file[1]) = 4326) =>
          /\ ~t_transformed
          /\ t_pc # "importing"
          /\ t_bounds # None => t_bounds[1] = IdentityBounds(t_file[1].bbox[1])
    /\ (c_bands.r # None /\ SpecSourceCrs(c_bands.r[1]) = 4326) =>
          /\ ~c_transformed
          /\ c_pc = "rendered" => c_bounds[1] = IdentityBounds(c_bands.r[1].bbox[1])

\* a TiffLayer build of a raster without geo keys published the box
\* (10, 20, 30, 40) as south-west (20, 10) and north-east (40, 30)
C16_Witness ==
    /\ t_pc = "rendered"
    /\ t_file[1].geoKeys = None
    /\ t_sourceProj = 4326
    /\ ~t_transformed
    /\ t_bounds = Some([sw |-> <<20, 10>>, ne |-> <<40, 30>>])
    /\ TiffShowsOverlay

\* the codes of the geographic (longitude/latitude) systems of the model
GeographicLike(crs) == crs \in {4326, 4269, 4277}

\* the specification's rule for skipping the transform
SkipAllowed(file) ==
    \/ SpecSourceCrs(file) = 4326
    \/ GeographicLike(SpecSourceCrs(file)) /\ Abs(file.bbox[1][1]) <= 180

\* lat and lon of the two corners as the transform returns them
TransformedBounds(crs, box) ==
    LET swT == proj4(crs, <<box[1], box[2]>>)
        neT == proj4(crs, <<box[3], box[4]>>)
    IN [sw |-> <<swT[2], swT[1]>>, ne |-> <<neT[2], neT[1]>>]

\* C17: the transform is skipped only when the source CRS is EPSG:4326, or is
\* geographic-like with |min_x| <= 180; for every other input, in particular
\* every projected source CRS whatever the magnitude of min_x, the bounds a
\* build publishes are the transformed corners in (lat, lon) order.
C17_TransformDecision ==
    /\ (t_bounds # None /\ ~SkipAllowed(t_file[1])) =>
          /\ t_transformed
          /\ t_bounds[1] = TransformedBounds(SpecSourceCrs(t_file[1]), t_file[1].bbox[1])
    /\ (c_pc = "rendered" /\ ~SkipAllowed(c_bands.r[1])) =>
          /\ c_transformed
          /\ c_bounds[1] = TransformedBounds(SpecSourceCrs(c_bands.r[1]),
                                             c_bands.r[1].bbox[1])

\* -90 <= lat <= 90 and -180 <= lon <= 180 for a corner <<lat, lon>>
ValidCorner(c) == Abs(c[1]) <= 90 /\ Abs(c[2]) <= 180
ValidGeoBounds(b) == ValidCorner(b.sw) /\ ValidCorner(b.ne) /\ b.sw[1] <= b.ne[1]

\* C18: every bounds value a build publishes (setBounds / fitBounds), in
\* single-band and in composite mode, has |lat| <= 90 and |lon| <= 180 for
\* both corners and south_west.lat <= north_east.lat; a result violating this
\* makes the build fail instead of being published.
C18_ValidBounds ==
    /\ t_bounds # None => ValidGeoBounds(t_bounds[1])
    /\ c_bounds # None => ValidGeoBounds(c_bounds[1])

\* the source CRS codes a transform definition exists for
KnownCrs == {4326, 4269, 3857, 3785, 900913, 102113}

\* the current build of the TiffLayer got as far as the bounds
TiffAtBounds == t_alpha # <<>>

\* C19: whenever the raster names a source CRS that has no known transform
\* definition, the build ends in an error and publishes no bounds, whatever
\* the bounding box holds.
C19_TransformUnavailable ==
    /\ (TiffAtBounds /\ TiffSettled /\ SpecSourceCrs(t_file[1]) \notin KnownCrs) =>
          (t_pc = "failed" /\ t_error # Null /\ t_bounds = None)
    /\ (c_pixels # <<>> /\ CompositeSettled
            /\ SpecSourceCrs(c_bands.r[1]) \notin KnownCrs) =>
          (c_pc = "failed" /\ c_error # Null)

\* C20: in every build mode the source CRS the build uses is the projected
\* key's code when a projected key is present (also when a geographic key is
\* present too), otherwise the geographic key's code when one is present,
\* otherwise EPSG:4326.
C20_CrsSelection ==
    /\ t_sourceProj # 0 => t_sourceProj = SpecSourceCrs(t_file[1])
    /\ c_sourceProj # 0 => c_sourceProj = SpecSourceCrs(c_bands.r[1])

-----------------------------------------------------------------------------
(* HeatmapLayer properties *)

\* the temperatures of the points of the props
TempsOf(props) == {props.points[i].temp : i \in 1..Len(props.points)}
\* the smallest and the largest temperature over all points
SpecMinTemp(props) == CHOOSE t \in TempsOf(props) : \A u \in TempsOf(props) : t <= u
SpecMaxTemp(props) == CHOOSE t \in TempsOf(props) : \A u \in TempsOf(props) : t >= u
\* the quotient x is the number n / d, for d > 0
IsQuotient(x, n, d) == x.den > 0 /\ x.num * d = n * x.den
\* the heat layer the mounted component has on the map
HeatShown == h_phase = "mounted" /\ h_layers # <<>>
NoOverride == h_props.minTemp = None /\ h_props.maxTemp = None

\* C21: with no override, the layer on the map holds one entry per input
\* point, in the order of the points, with the point's coordinates and the
\* intensity (temp - min) / (max - min), min and max being the smallest and
\* largest temperature over all points, or 0.5 for every point when max = min.
C21_Intensity ==
    (HeatShown /\ NoOverride) =>
        LET data == h_layers[Len(h_layers)].latlngs
            lo == SpecMinTemp(h_props)
            hi == SpecMaxTemp(h_props)
        IN /\ Len(data) = Len(h_props.points)
           /\ \A i \in 1..Len(data) :
                 /\ data[i][1] = h_props.points[i].lat
                 /\ data[i][2] = h_props.points[i].lon
                 /\ IF hi = lo
                    THEN IsQuotient(data[i][3], 1, 2)
                    ELSE IsQuotient(data[i][3], h_props.points[i].temp - lo, hi - lo)

\* temperatures 10, 20, 30 without override are on the map as 0.0, 0.5, 1.0
C21_Witness ==
    /\ HeatShown /\ NoOverride
    /\ Len(h_props.points) = 3
    /\ h_props.points[1].temp = 10 /\ h_props.points[2].temp = 20
    /\ h_props.points[3].temp = 30
    /\ LET data == h_layers[1].latlngs
       IN /\ data[1][3].num = 0
          /\ data[2][3] = [num |-> 1, den |-> 2]
          /\ data[3][3] = [num |-> 1, den |-> 1]

\* C22: every intensity of every heat layer on the map lies in [0, 1],
\* whatever the points and whichever of minTemp and maxTemp are supplied.
C22_IntensityRange ==
    \A k \in 1..Len(h_layers) : \A i \in 1..Len(h_layers[k].latlngs) :
        LET x == h_layers[k].latlngs[i][3]
        IN 0 <= x.num /\ x.num <= x.den

\* the effect ran in this step
EffectRan == h_phase' = "mounted" /\ (h_phase = "new" \/ h_props' # h_props)

\* C23: an effect run with zero points adds no heat layer to the map,
\* computes no minimum, maximum or bounding box, leaves the map view as it
\* was, and registers nothing to clean up.
C23_EmptyPoints ==
    [][(EffectRan /\ Len(h_props'.points) = 0) =>
          /\ h_layers' = <<>>
          /\ h_effect' = None
          /\ h_view' = h_view
          /\ h_cleanup' = None]_vars

\* the points became empty after a heatmap was shown: the map is still
\* fitted to the earlier points and holds no heat layer
C23_Witness ==
    /\ h_phase = "mounted" /\ Len(h_props.points) = 0
    /\ h_view # None /\ h_effect = None /\ h_layers = <<>>

\* C27: the map never holds more than one heat layer; while the component is
\* mounted with points the layer on the map is the one built from the
\* current props; the map holds none before the mount, after the unmount and
\* while points is empty.
C27_Lifecycle ==
    /\ Len(h_layers) <= 1
    /\ (h_phase = "mounted" /\ Len(h_props.points) > 0) =>
          h_layers = <<heatLayer(h_props)>>
    /\ (h_phase # "mounted" \/ Len(h_props.points) = 0) => h_layers = <<>>

\* the component was unmounted after it had shown a heatmap
C27_Witness ==
    /\ h_phase = "unmounted" /\ h_view # None /\ h_layers = <<>>
    /\ Len(h_props.points) > 0 /\ h_props.radius # DefaultRadius

-----------------------------------------------------------------------------
(* analysisStore and handleRunAnalysis properties *)

\* the step hides the notification from a timer's callback
TimerHides ==
    s_notification # None /\ s_notification' = None /\ Len(s_timers') < Len(s_timers)

\* C28: a notification stays visible until 3 seconds after the
\* showNotification call that set it, unless it is closed explicitly, and is
\* hidden then: no timer hides it earlier, in particular not the timer of a
\* notification shown before it.
C28_AutoHide ==
    /\ [](s_notification # None => s_now <= s_shownAt[1] + HideDelay)
    /\ [][TimerHides => s_now >= s_shownAt[1] + HideDelay]_vars

\* C29: saveCurrentAnalysis without an analysisResult leaves projects and
\* notification as they are; with one, projects grows by exactly one entry at
\* the head whose result is the current analysisResult, the projects it held
\* follow in their order, and analysisResult, isLoading and error keep
\* their values.
C29_SaveFrame ==
    [][\A name \in Names : saveCurrentAnalysis(name) =>
          IF s_analysisResult = None
          THEN s_projects' = s_projects /\ s_notification' = s_notification
          ELSE /\ Len(s_projects') = Len(s_projects) + 1
               /\ s_projects'[1].result = s_analysisResult[1]
               /\ Tail(s_projects') = s_projects
               /\ s_analysisResult' = s_analysisResult
               /\ s_isLoading' = s_isLoading
               /\ s_error' = s_error]_vars

\* a second project was saved in front of the first and announced
C29_Witness ==
    /\ Len(s_projects) = 2
    /\ s_analysisResult # None
    /\ s_projects[1].result = s_analysisResult[1]
    /\ s_projects[2] \in {p[1] : p \in Persisted \ {<<>>}}
    /\ s_notification # None
    /\ s_notification[1].message = <<"Project saved", s_projects[1].name>>

\* a call of handleRunAnalysis returns in this step
RunFinishes == r_runs' < r_runs

\* C30: when handleRunAnalysis finishes isLoading is false and exactly one of
\* analysisResult and error is set; while a call is running, past its first
\* step, analysisResult and error are null and isLoading is true.
C30_RunOutcome ==
    /\ [](r_runs > 0 => (s_isLoading /\ s_analysisResult = None /\ s_error = Null))
    /\ [][RunFinishes =>
            /\ ~s_isLoading'
            /\ (s_analysisResult' # None) # (s_error' # Null)]_vars

-----------------------------------------------------------------------------
(* Properties of builds that overlap *)

\* the image and the bounds a build of the file, or of the bands, publishes
TiffImageOf(file) ==
    LET data == readRasters(file, TargetSize(file.width, file.height, MaxDimTiff))
    IN toDataURL(TiffCanvas(data, TiffDomain(data)))
TiffBoundsOf(file) ==
    LET sourceProj == TiffSourceProj(file.geoKeys)
    IN IF NeedsTransform(sourceProj, file.bbox[1])
       THEN Transformed(sourceProj, file.bbox[1])
       ELSE Direct(file.bbox[1])
CompositeImageOf(bands) ==
    LET width == bands.r[1].width
        height == bands.r[1].height
        target == TargetSize(width, height, MaxDimComposite)
        arr == [r |-> readRaster(bands.r[1], width, height, target),
                g |-> readRaster(bands.g[1], width, height, target),
                b |-> readRaster(bands.b[1], width, height, target)]
    IN toDataURL(Combine(arr, [r |-> getStats(arr.r), g |-> getStats(arr.g),
                               b |-> getStats(arr.b)]))
CompositeBoundsOf(bands) ==
    LET sourceProj == CompositeSourceProj(bands.r[1].geoKeys)
    IN IF NeedsTransform(sourceProj, bands.r[1].bbox[1])
       THEN Transformed(sourceProj, bands.r[1].bbox[1])
       ELSE Direct(bands.r[1].bbox[1])

\* a build of the file, or of the bands, on its own ends with an overlay
TiffBuildSucceeds(file) ==
    /\ file.size <= MaxFileBytes /\ file.decodable
    /\ TiffSourceProj(file.geoKeys) \in KnownCrs
CompositeBuildSucceeds(bands) ==
    /\ \A X \in {"r", "g", "b"} : bands[X][1].decodable
    /\ CompositeSourceProj(bands.r[1].geoKeys) \in KnownCrs

\* what the layers render: the overlay [url, bounds], or None for a banner
\* or nothing
TiffOverlay ==
    IF t_error = Null /\ ~t_loading /\ t_imageUrl # Null /\ t_bounds # None
    THEN Some([url |-> t_imageUrl, bounds |-> t_bounds[1]])
    ELSE None
CompositeOverlay ==
    IF ~c_loading /\ c_error = Null /\ c_imageUrl # Null /\ c_bounds # None
    THEN Some([url |-> c_imageUrl, bounds |-> c_bounds[1]])
    ELSE None

\* every image and every bounds a step publishes are those of the input
\* the layer has after the step
C24_Step ==
    /\ (t_imageUrl' # Null /\ t_imageUrl' # t_imageUrl) =>
          (t_file' # None /\ t_imageUrl' = TiffImageOf(t_file'[1]))
    /\ (t_bounds' # None /\ t_bounds' # t_bounds) =>
          (t_file' # None /\ t_bounds' = Some(TiffBoundsOf(t_file'[1])))
    /\ (c_imageUrl' # Null /\ c_imageUrl' # c_imageUrl) =>
          (~BandMissing(c_bands') /\ c_imageUrl' = CompositeImageOf(c_bands'))
    /\ (c_bounds' # None /\ c_bounds' # c_bounds) =>
          (~BandMissing(c_bands') /\ c_bounds' = Some(CompositeBoundsOf(c_bands')))

\* with no build waiting the layer shows the overlay of its input: nothing
\* for a null input or an input whose build fails
C24_State ==
    /\ (mapViewMode = "thermal" /\ t_builds = <<>>) =>
          TiffOverlay =
             IF t_file # None /\ TiffBuildSucceeds(t_file[1])
             THEN Some([url |-> TiffImageOf(t_file[1]), bounds |-> TiffBoundsOf(t_file[1])])
             ELSE None
    /\ (mapViewMode = "truecolor" /\ c_builds = <<>>) =>
          CompositeOverlay =
             IF ~BandMissing(c_bands) /\ CompositeBuildSucceeds(c_bands)
             THEN Some([url |-> CompositeImageOf(c_bands),
                        bounds |-> CompositeBoundsOf(c_bands)])
             ELSE None

\* C24: when the input of a layer changes, also to null, while a build is
\* waiting, the image and bounds of that build are never published after the
\* change, and once every build has settled the overlay shown is the one of
\* the latest input, whatever the order in which the builds end.
C24_AbandonedBuilds == []C24_State /\ [][C24_Step]_vars

\* C25: the loading flag of a layer is true exactly while at least one build
\* the layer started is waiting.
C25_LoadingFlag ==
    /\ t_loading <=> t_builds # <<>>
    /\ c_loading <=> c_builds # <<>>

\* C26: when the input of a layer is set to null with no build waiting,
\* after a build that ended well or failed, imageUrl, bounds and error are
\* all null afterwards.
C26_ClearResets ==
    [][/\ (t_file # None /\ t_file' = None /\ t_builds = <<>>) =>
             (t_imageUrl' = Null /\ t_bounds' = None /\ t_error' = Null)
       /\ (~BandMissing(c_bands) /\ BandMissing(c_bands') /\ c_builds = <<>>) =>
             (c_imageUrl' = Null /\ c_bounds' = None /\ c_error' = Null)]_vars

====
